---- MODULE Spec2Model ----
(***************************************************************************)
(* Model of the Apito JavaScript plugin SDK runtime (class Plugin):        *)
(* the schema registry, the go-plugin bootstrap (secret check, listener,   *)
(* handshake line), the RPC handlers and the Execute dispatch.             *)
(*                                                                         *)
(* JavaScript runs every callback to completion, so one action is one      *)
(* synchronous stretch of code: a register call, serve() up to bindAsync,  *)
(* the bindAsync callback, handleExecute up to its await, and the          *)
(* continuation after the awaited handler settles.                         *)
(*                                                                         *)
(* A text is a sequence of tokens: a template literal `a ${b}` is the      *)
(* concatenation <<"a ">> \o <<b>>.                                        *)
(***************************************************************************)
EXTENDS Integers, Sequences, FiniteSets, TLC

\* ------------------------------------------------------------------ bounds
\* Number of register* calls the plugin author makes before serve().
MaxRegs == 2
\* Number of entries in the argument of one batch register call.
MaxBatch == 2
\* Number of batch register calls the plugin author makes before serve().
MaxBatchCalls == 1
\* Nesting depth of the values a host sends as arguments and a handler returns.
MaxDepth == 2

\* ------------------------------------------------------------ input domains
None == "<none>"

\* Operation names used by register calls.
Names == {"x", "y"}
\* Field descriptor objects the caller owns (object identities on the JS heap).
FieldIds == {"f1", "f2"}
\* Resolver / handler function objects the caller supplies.
ResolverIds == {"r1", "r2"}
\* REST endpoint descriptor objects the caller owns.
EndpointIds == {"e1", "e2"}
\* Health probe function objects.
ProbeIds == {"p1"}
\* The bound method this.performHealthCheck registered by the constructor.
BuiltinHealth == "performHealthCheck"
HealthCheckName == "health_check"
FunctionNames == {"x", HealthCheckName}

\* A property that is present with the value undefined.
Undefined == "<undefined>"

\* Arguments of the batch register calls. A mapping argument is the sequence
\* Object.entries gives (own keys are distinct); a handlers argument maps a
\* key to its function, or to None when the lookup handlers[key] is falsy.
DistinctNames(entries) ==
    \A i, j \in DOMAIN entries : entries[i].name = entries[j].name => i = j
FieldEntries ==
    {es \in UNION {[1..k -> [name : Names, field : FieldIds]] : k \in 0..MaxBatch} :
        DistinctNames(es)}
ResolverArgs == [Names -> ResolverIds \cup {None}]
EndpointArrays == UNION {[1..k -> EndpointIds] : k \in 0..MaxBatch}
FunctionEntries ==
    {es \in UNION {[1..k -> [name : FunctionNames, func : ResolverIds \cup {Undefined}]] :
                        k \in 0..MaxBatch} :
        DistinctNames(es)}

\* Values process.env.APITO_PLUGIN can have: unset, empty, a wrong value, the cookie.
MagicCookie == "apito_plugin_magic_cookie_v1"
CookieValues == {None, "", "wrong_cookie", MagicCookie}
\* The environment variables the model tracks: the shared secret and one
\* variable a host may inject with Init.
EnvKeys == {"APITO_PLUGIN", "A"}
\* The port the operating system assigns to the listener.
Ports == {"50051"}

\* function_type values a host may send: the five the dispatch knows and the
\* two further ones of the documented protocol ("function", "rest").
KnownKinds == {"graphql_query", "graphql_mutation", "rest_api", "custom_function", "system"}
Kinds == KnownKinds \cup {"function", "rest"}

\* What the awaited user handler does: returns a value, throws an Error with
\* message "boom", throws a string, throws null, throws undefined.
Outcomes == {"return", "throwError", "throwString", "throwNull", "throwUndefined"}
\* What a health probe does.
ProbeOutcomes == {"healthy", "error", "nostatus", "throw"}

\* Function names of the structured form rest_<method>_<segments> a host sends.
StructuredNames == {"rest_get_a"}

\* ------------------------------------------------------------------- state
VARIABLES
    fieldObj,        \* heap: FieldIds -> the descriptor object's properties
    endpointObj,     \* heap: EndpointIds -> the endpoint object's properties
    queries,         \* this.queries: name -> FieldIds (a reference) or None
    mutations,       \* this.mutations
    resolvers,       \* this.resolvers: name -> ResolverIds or None
    restAPIs,        \* this.restAPIs: sequence of EndpointIds (references)
    restHandlers,    \* this.restHandlers: handler key -> ResolverIds or None
    functions,       \* this.functions: name -> handler or None
    healthChecks,    \* this.healthChecks: sequence of ProbeIds
    regLog,          \* history: the register calls made so far, in order
    phase,           \* where the process is in its life
    lifecycle,       \* history: bootstrap steps in the order the code performed them
    server,          \* this.server: None, "created", "bound", "started", "draining"
    protoDefinition, \* this.protoDefinition loaded
    stdout,          \* lines written with process.stdout.write
    stderr,          \* kinds of lines written with process.stderr.write
    exitCode,        \* <<>> while the process runs, else <<status of process.exit>>
    env,             \* process.env: variable name -> value, None when unset
    calls            \* RPC calls: slot -> the call it holds and its response

regVars == <<fieldObj, endpointObj, queries, mutations, resolvers, restAPIs,
             restHandlers, functions, healthChecks, regLog>>
bootVars == <<phase, lifecycle, server, protoDefinition, stdout, exitCode>>
vars == <<fieldObj, endpointObj, queries, mutations, resolvers, restAPIs,
          restHandlers, functions, healthChecks, regLog, phase, lifecycle, server,
          protoDefinition, stdout, stderr, exitCode, env, calls>>

\* Call slots. Spec uses one slot, taken by one call after the other.
CallIds == {"c1"}

\* ----------------------------------------------------------- JS values
\* A JavaScript value is a record tagged by its typeof / shape.
JsUndefined == [t |-> "undefined"]
JsNull == [t |-> "null"]
JsStr(s) == [t |-> "string", v |-> s]
JsNum(n) == [t |-> "number", v |-> n]
JsBool(b) == [t |-> "boolean", v |-> b]
JsList(items) == [t |-> "list", v |-> items]
JsObj(props) == [t |-> "object", v |-> props]
JsFunction(nm) == [t |-> "function", v |-> nm]
\* new Error(message)
JsError(message) == [t |-> "Error", message |-> message]

Has(rec, key) == key \in DOMAIN rec

\* ------------------------------------------------------- caller's objects
\* createScalarType(scalarType)
createScalarType(scalarType) ==
    [kind |-> "scalar", scalarType |-> scalarType, name |-> scalarType]

\* Field(fieldType, description): a fresh descriptor, not yet registered
\* (resolve is undefined, modelled as the empty string).
Field(fieldType, description) ==
    [type |-> createScalarType(fieldType), description |-> description,
     args |-> <<>>, resolve |-> ""]

\* The descriptor objects the plugin author built before registering:
\* f1 = StringField("first"), f2 = BooleanField("second").
InitialFieldObj ==
    [f \in FieldIds |-> IF f = "f1" THEN Field("String", "first")
                                    ELSE Field("Boolean", "second")]

\* GETEndpoint(path, description).build(): both endpoint objects describe
\* GET /a, with different descriptions; handler is set by registerRESTAPI.
InitialEndpointObj ==
    [e \in EndpointIds |->
        [method |-> "GET", path |-> "/a",
         description |-> IF e = "e1" THEN "first" ELSE "second",
         schema |-> <<>>, handler |-> ""]]

\* `${endpoint.method}_${endpoint.path}`
HandlerKey(endpoint) == endpoint.method \o "_" \o endpoint.path
RestKeys == {HandlerKey(InitialEndpointObj[e]) : e \in EndpointIds}

\* function_name values a host may send.
ExecNames == {"x", HealthCheckName} \cup RestKeys

\* A call slot that holds no call. rpc is the method called; kind and name
\* are function_type and function_name of an Execute request; handler is the
\* function handleExecute awaits and outcome what that function did; request
\* holds the request of an Init call; cb counts the invocations of the
\* response callback and resp holds the response handed to it. args holds
\* the decoded arguments of an Execute call, returned the value its handler
\* returned, and probed the health probes performHealthCheck invoked.
IdleCall ==
    [st |-> "idle", rpc |-> None, kind |-> "", name |-> "", handler |-> None,
     outcome |-> None, request |-> <<>>, cb |-> 0, resp |-> <<>>,
     args |-> <<>>, returned |-> <<>>, probed |-> <<>>]

\* ------------------------------------------------------------ constructor
\* new Plugin(name, version, apiKey): empty registries, then
\* this.registerFunction('health_check', this.performHealthCheck.bind(this)),
\* which logs one line to stderr.
Init ==
    /\ fieldObj = InitialFieldObj
    /\ endpointObj = InitialEndpointObj
    /\ queries = [n \in Names |-> None]
    /\ mutations = [n \in Names |-> None]
    /\ resolvers = [n \in Names |-> None]
    /\ restAPIs = <<>>
    /\ restHandlers = [k \in RestKeys |-> None]
    /\ functions = [n \in FunctionNames |->
                        IF n = HealthCheckName THEN BuiltinHealth ELSE None]
    /\ healthChecks = <<>>
    /\ regLog = <<>>
    /\ phase = "Unstarted"
    /\ lifecycle = <<>>
    /\ server = None
    /\ protoDefinition = FALSE
    /\ stdout = <<>>
    /\ stderr = {"log"}
    /\ exitCode = <<>>
    /\ env \in {[k \in EnvKeys |-> IF k = "APITO_PLUGIN" THEN ck ELSE None] :
                    ck \in CookieValues}
    /\ calls = [c \in CallIds |-> IdleCall]

\* ------------------------------------------------------------ registration
\* Registration happens in the plugin's main() before it awaits serve()
\* (examples/simple-plugin/main.js); MaxRegs bounds the number of calls.
CanRegister == phase = "Unstarted" /\ Len(regLog) < MaxRegs

Logged(op, name, obj, handler) ==
    Append(regLog, [op |-> op, name |-> name, obj |-> obj, handler |-> handler])

\* registerQuery with its log line written by console.log (stdout) instead of
\* process.stderr.write.
registerQuery_LogsToStdout(name, field, resolver) ==
    /\ CanRegister
    /\ fieldObj' = [fieldObj EXCEPT ![field].resolve = name]
    /\ queries' = [queries EXCEPT ![name] = field]
    /\ resolvers' = [resolvers EXCEPT ![name] = resolver]
    /\ stdout' = Append(stdout, "log")
    /\ regLog' = Logged("registerQuery", name, field, resolver)
    /\ UNCHANGED <<endpointObj, mutations, restAPIs, restHandlers, functions,
                   healthChecks, phase, lifecycle, server, protoDefinition,
                   exitCode, stderr, env, calls>>

\* registerQuery that keeps the first field and resolver of a name
\* (if (!this.queries.has(name)) around the two set calls).
registerQuery_FirstWriterWins(name, field, resolver) ==
    /\ CanRegister
    /\ fieldObj' = [fieldObj EXCEPT ![field].resolve = name]
    /\ queries' = IF queries[name] # None THEN queries
                  ELSE [queries EXCEPT ![name] = field]
    /\ resolvers' = IF queries[name] # None THEN resolvers
                    ELSE [resolvers EXCEPT ![name] = resolver]
    /\ stderr' = stderr \cup {"log"}
    /\ regLog' = Logged("registerQuery", name, field, resolver)
    /\ UNCHANGED <<endpointObj, mutations, restAPIs, restHandlers, functions,
                   healthChecks, bootVars, env, calls>>

\* registerQuery(name, field, resolver)
registerQuery(name, field, resolver) ==
    /\ CanRegister
    /\ fieldObj' = [fieldObj EXCEPT ![field].resolve = name]
    /\ queries' = [queries EXCEPT ![name] = field]
    /\ resolvers' = [resolvers EXCEPT ![name] = resolver]
    /\ stderr' = stderr \cup {"log"}
    /\ regLog' = Logged("registerQuery", name, field, resolver)
    /\ UNCHANGED <<endpointObj, mutations, restAPIs, restHandlers, functions,
                   healthChecks, bootVars, env, calls>>

\* registerMutation(name, field, resolver)
registerMutation(name, field, resolver) ==
    /\ CanRegister
    /\ fieldObj' = [fieldObj EXCEPT ![field].resolve = name]
    /\ mutations' = [mutations EXCEPT ![name] = field]
    /\ resolvers' = [resolvers EXCEPT ![name] = resolver]
    /\ stderr' = stderr \cup {"log"}
    /\ regLog' = Logged("registerMutation", name, field, resolver)
    /\ UNCHANGED <<endpointObj, queries, restAPIs, restHandlers, functions,
                   healthChecks, bootVars, env, calls>>

\* registerRESTAPI(endpoint, handler)
registerRESTAPI(endpoint, handler) ==
    /\ CanRegister
    /\ endpointObj' = [endpointObj EXCEPT
                          ![endpoint].handler = HandlerKey(endpointObj[endpoint])]
    /\ restAPIs' = Append(restAPIs, endpoint)
    /\ restHandlers' = [restHandlers EXCEPT
                           ![HandlerKey(endpointObj[endpoint])] = handler]
    /\ stderr' = stderr \cup {"log"}
    /\ regLog' = Logged("registerRESTAPI", HandlerKey(endpointObj[endpoint]),
                        endpoint, handler)
    /\ UNCHANGED <<fieldObj, queries, mutations, resolvers, functions,
                   healthChecks, bootVars, env, calls>>

\* A registration guarded by if (this.functions.has(name)) return: the
\* built-in health_check could then never be replaced.
registerFunction_KeepsFirst(name, func) ==
    /\ CanRegister
    /\ functions' = IF functions[name] # None THEN functions
                    ELSE [functions EXCEPT ![name] = func]
    /\ stderr' = stderr \cup {"log"}
    /\ regLog' = Logged("registerFunction", name, None, func)
    /\ UNCHANGED <<fieldObj, endpointObj, queries, mutations, resolvers, restAPIs,
                   restHandlers, healthChecks, bootVars, env, calls>>

\* registerFunction(name, func)
registerFunction(name, func) ==
    /\ CanRegister
    /\ functions' = [functions EXCEPT ![name] = func]
    /\ stderr' = stderr \cup {"log"}
    /\ regLog' = Logged("registerFunction", name, None, func)
    /\ UNCHANGED <<fieldObj, endpointObj, queries, mutations, resolvers, restAPIs,
                   restHandlers, healthChecks, bootVars, env, calls>>

\* registerHealthCheck(healthCheck)
registerHealthCheck(healthCheck) ==
    /\ CanRegister
    /\ healthChecks' = Append(healthChecks, healthCheck)
    /\ stderr' = stderr \cup {"log"}
    /\ regLog' = Logged("registerHealthCheck", None, None, healthCheck)
    /\ UNCHANGED <<fieldObj, endpointObj, queries, mutations, resolvers, restAPIs,
                   restHandlers, functions, bootVars, env, calls>>

\* ------------------------------------------------------ batch registration
\* The registries as one value, for the loops of the batch variants.
Registry ==
    [fieldObj |-> fieldObj, endpointObj |-> endpointObj, queries |-> queries,
     mutations |-> mutations, resolvers |-> resolvers, restAPIs |-> restAPIs,
     restHandlers |-> restHandlers, functions |-> functions, regLog |-> regLog]

\* The registries after one call of a single-item variant made by a loop.
AfterRegisterQuery(st, name, field, resolver) ==
    [st EXCEPT !.fieldObj[field].resolve = name,
               !.queries[name] = field,
               !.resolvers[name] = resolver,
               !.regLog = Append(@, [op |-> "registerQuery", name |-> name,
                                     obj |-> field, handler |-> resolver])]

AfterRegisterMutation(st, name, field, resolver) ==
    [st EXCEPT !.fieldObj[field].resolve = name,
               !.mutations[name] = field,
               !.resolvers[name] = resolver,
               !.regLog = Append(@, [op |-> "registerMutation", name |-> name,
                                     obj |-> field, handler |-> resolver])]

AfterRegisterRESTAPI(st, endpoint, handler) ==
    LET key == HandlerKey(st.endpointObj[endpoint])
    IN [st EXCEPT !.endpointObj[endpoint].handler = key,
                  !.restAPIs = Append(@, endpoint),
                  !.restHandlers[key] = handler,
                  !.regLog = Append(@, [op |-> "registerRESTAPI", name |-> key,
                                        obj |-> endpoint, handler |-> handler])]

AfterRegisterFunction(st, name, func) ==
    [st EXCEPT !.functions[name] = func,
               !.regLog = Append(@, [op |-> "registerFunction", name |-> name,
                                     obj |-> None, handler |-> func])]

\* for (const [name, field] of Object.entries(queries))
\*     if (resolvers[name]) this.registerQuery(name, field, resolvers[name])
RECURSIVE EachQuery(_, _, _)
EachQuery(st, entries, resolversArg) ==
    IF entries = <<>> THEN st
    ELSE LET e == Head(entries)
         IN EachQuery(IF resolversArg[e.name] # None
                      THEN AfterRegisterQuery(st, e.name, e.field, resolversArg[e.name])
                      ELSE st,
                      Tail(entries), resolversArg)

RECURSIVE EachMutation(_, _, _)
EachMutation(st, entries, resolversArg) ==
    IF entries = <<>> THEN st
    ELSE LET e == Head(entries)
         IN EachMutation(IF resolversArg[e.name] # None
                         THEN AfterRegisterMutation(st, e.name, e.field, resolversArg[e.name])
                         ELSE st,
                         Tail(entries), resolversArg)

\* for (const endpoint of endpoints)
\*     if (handlers[handlerKey]) this.registerRESTAPI(endpoint, handlers[handlerKey])
RECURSIVE EachRESTAPI(_, _, _)
EachRESTAPI(st, endpoints, handlers) ==
    IF endpoints = <<>> THEN st
    ELSE LET handlerKey == HandlerKey(st.endpointObj[Head(endpoints)])
         IN EachRESTAPI(IF handlers[handlerKey] # None
                        THEN AfterRegisterRESTAPI(st, Head(endpoints), handlers[handlerKey])
                        ELSE st,
                        Tail(endpoints), handlers)

\* for (const [name, func] of Object.entries(functions))
\*     this.registerFunction(name, func)
RECURSIVE EachFunction(_, _)
EachFunction(st, entries) ==
    IF entries = <<>> THEN st
    ELSE EachFunction(AfterRegisterFunction(st, Head(entries).name, Head(entries).func),
                      Tail(entries))

\* The batch call itself in the registration history.
BatchCalled(op, entries, handlers) ==
    [Registry EXCEPT !.regLog = Append(@, [op |-> op, name |-> None,
                                           obj |-> entries, handler |-> handlers])]

CanRegisterBatch == phase = "Unstarted" /\ Len(regLog) < MaxBatchCalls

\* The registries become those of st.
Registered(st) ==
    /\ fieldObj' = st.fieldObj
    /\ endpointObj' = st.endpointObj
    /\ queries' = st.queries
    /\ mutations' = st.mutations
    /\ resolvers' = st.resolvers
    /\ restAPIs' = st.restAPIs
    /\ restHandlers' = st.restHandlers
    /\ functions' = st.functions
    /\ regLog' = st.regLog
    /\ stderr' = stderr \cup {"log"}
    /\ UNCHANGED <<healthChecks, bootVars, env, calls>>

\* registerQueries(queries, resolvers)
registerQueries(entries, resolversArg) ==
    /\ CanRegisterBatch
    /\ Registered(EachQuery(BatchCalled("registerQueries", entries, resolversArg),
                            entries, resolversArg))

\* registerMutations(mutations, resolvers)
registerMutations(entries, resolversArg) ==
    /\ CanRegisterBatch
    /\ Registered(EachMutation(BatchCalled("registerMutations", entries, resolversArg),
                               entries, resolversArg))

\* registerRESTAPIs(endpoints, handlers)
registerRESTAPIs(endpoints, handlers) ==
    /\ CanRegisterBatch
    /\ Registered(EachRESTAPI(BatchCalled("registerRESTAPIs", endpoints, handlers),
                              endpoints, handlers))

\* registerFunctions(functions)
registerFunctions(entries) ==
    /\ CanRegisterBatch
    /\ Registered(EachFunction(BatchCalled("registerFunctions", entries, None), entries))

\* --------------------------------------------------------------- bootstrap
Signals == {"SIGTERM", "SIGINT"}

\* process.exit(code): the process stops; nothing of it runs afterwards.
Exited(code, done) ==
    /\ phase' = "Exited"
    /\ exitCode' = <<code>>
    /\ lifecycle' = done \o <<"Stopped">>

\* The diagnostics of serve()'s catch block, `SDK: Failed to start plugin
\* server: ${error}`, one per error that reaches it.
ProtoNotFound == "Failed to start plugin server: Could not find plugin.proto file"
ServiceNotFound == "Failed to start plugin server: PluginService not found"
BindFailed == "Failed to start plugin server: bind error"
StartFailures == {ProtoNotFound, ServiceNotFound, BindFailed}

\* A guard that only tests that the cookie is set and non-empty.
CookieValid_AnyValue(cookie) == ~(cookie = None \/ cookie = "")

\* The guard of serve(): the cookie is set, non-empty and the expected literal
\* (!process.env.APITO_PLUGIN || process.env.APITO_PLUGIN !== '...' exits).
CookieValid(cookie) ==
    ~(cookie = None \/ cookie = "") /\ cookie = MagicCookie

\* The line written to stdout for go-plugin.
HandshakeLine(assignedPort) == "1|1|tcp|127.0.0.1:" \o assignedPort \o "|grpc\n"

\* serve(), run by the plugin's main() after its register calls, up to the
\* point where startServer() has called bindAsync and awaits its callback.
\*   protoFound    loadProtoDefinition finds plugin.proto in a search location
\*   serviceFound  the loaded definition contains PluginService
serve(protoFound, serviceFound) ==
    /\ phase = "Unstarted"
    /\ IF ~CookieValid(env["APITO_PLUGIN"])
       THEN \* stderr diagnostic, process.exit(1)
            /\ stderr' = stderr \cup {"cookie_error"}
            /\ Exited(1, lifecycle)
            /\ UNCHANGED <<server, protoDefinition>>
       ELSE IF ~protoFound
       THEN \* loadProtoDefinition throws; catch: stderr, process.exit(1)
            /\ stderr' = stderr \cup {ProtoNotFound}
            /\ Exited(1, lifecycle \o <<"SecretValidated">>)
            /\ UNCHANGED <<server, protoDefinition>>
       ELSE IF ~serviceFound
       THEN \* new grpc.Server(), then throw 'PluginService not found'
            /\ protoDefinition' = TRUE
            /\ server' = "created"
            /\ stderr' = stderr \cup {"log", ServiceNotFound}
            /\ Exited(1, lifecycle \o <<"SecretValidated">>)
       ELSE \* addService, startServer: bindAsync is pending
            /\ protoDefinition' = TRUE
            /\ server' = "created"
            /\ stderr' = stderr \cup {"log"}
            /\ phase' = "Binding"
            /\ lifecycle' = lifecycle \o <<"SecretValidated">>
            /\ UNCHANGED exitCode
    /\ UNCHANGED <<regVars, stdout, env, calls>>

\* A bindAsync callback that writes the handshake line before server.start().
bindCallback_StartsLast(err, assignedPort) ==
    /\ phase = "Binding"
    /\ IF err
       THEN /\ stderr' = stderr \cup {BindFailed}
            /\ Exited(1, lifecycle)
            /\ UNCHANGED <<server, stdout>>
       ELSE /\ server' = "started"
            /\ stderr' = stderr \cup {"log"}
            /\ stdout' = Append(stdout, HandshakeLine(assignedPort))
            /\ lifecycle' = lifecycle \o <<"ListenerBound", "HandshakeEmitted", "Serving">>
            /\ phase' = "Serving"
            /\ UNCHANGED exitCode
    /\ UNCHANGED <<regVars, protoDefinition, env, calls>>

\* A bindAsync callback that writes the handshake line before it looks at err.
bindCallback_AnnouncesOnError(err, assignedPort) ==
    /\ phase = "Binding"
    /\ stdout' = Append(stdout, HandshakeLine(assignedPort))
    /\ IF err
       THEN /\ stderr' = stderr \cup {BindFailed}
            /\ Exited(1, lifecycle)
            /\ UNCHANGED server
       ELSE /\ server' = "started"
            /\ stderr' = stderr \cup {"log"}
            /\ lifecycle' = lifecycle \o <<"ListenerBound", "Serving", "HandshakeEmitted">>
            /\ phase' = "Serving"
            /\ UNCHANGED exitCode
    /\ UNCHANGED <<regVars, protoDefinition, env, calls>>

\* The bindAsync callback (err, assignedPort) of startServer().
bindCallback(err, assignedPort) ==
    /\ phase = "Binding"
    /\ IF err
       THEN \* reject(err): serve()'s catch logs and calls process.exit(1)
            /\ stderr' = stderr \cup {BindFailed}
            /\ Exited(1, lifecycle)
            /\ UNCHANGED <<server, stdout>>
       ELSE \* server.start(); stderr log; stdout handshake; setupGracefulShutdown()
            /\ server' = "started"
            /\ stderr' = stderr \cup {"log"}
            /\ stdout' = Append(stdout, HandshakeLine(assignedPort))
            /\ lifecycle' = lifecycle \o <<"ListenerBound", "Serving", "HandshakeEmitted">>
            /\ phase' = "Serving"
            /\ UNCHANGED exitCode
    /\ UNCHANGED <<regVars, protoDefinition, env, calls>>

\* shutdown(signal), the SIGTERM / SIGINT handler installed by
\* setupGracefulShutdown(): this.server is set, so server.tryShutdown(cb).
shutdown(signal) ==
    /\ phase \in {"Serving", "ShuttingDown"}
    /\ stderr' = stderr \cup {"log"}
    /\ server' = "draining"
    /\ phase' = "ShuttingDown"
    /\ lifecycle' = IF phase = "Serving" THEN lifecycle \o <<"ShuttingDown">>
                                         ELSE lifecycle
    /\ UNCHANGED <<regVars, protoDefinition, stdout, exitCode, env, calls>>

\* A tryShutdown callback that logs the error and exits with status 0.
tryShutdownCallback_ErrorExitsZero(err) ==
    /\ phase = "ShuttingDown"
    /\ \A c \in DOMAIN calls : calls[c].st # "awaiting"
    /\ stderr' = stderr \cup {IF err THEN "shutdown_error" ELSE "log"}
    /\ Exited(0, lifecycle)
    /\ UNCHANGED <<regVars, server, protoDefinition, stdout, env, calls>>

\* The tryShutdown callback: grpc calls it once no call is pending.
tryShutdownCallback(err) ==
    /\ phase = "ShuttingDown"
    /\ \A c \in DOMAIN calls : calls[c].st # "awaiting"
    /\ IF err
       THEN /\ stderr' = stderr \cup {"shutdown_error"}
            /\ Exited(1, lifecycle)
       ELSE /\ stderr' = stderr \cup {"log"}
            /\ Exited(0, lifecycle)
    /\ UNCHANGED <<regVars, server, protoDefinition, stdout, env, calls>>

\* ------------------------------------------------------------------- codec
\* convertValueToProtobuf(value): a JS value to a google.protobuf.Value shape.
RECURSIVE convertValueToProtobuf(_)
convertValueToProtobuf(value) ==
    IF value.t \in {"null", "undefined"} THEN [nullValue |-> 0]
    ELSE IF value.t = "string" THEN [stringValue |-> value.v]
    ELSE IF value.t = "number" THEN [numberValue |-> value.v]
    ELSE IF value.t = "boolean" THEN [boolValue |-> value.v]
    ELSE IF value.t = "list"
    THEN [listValue |->
            [values |-> [i \in 1..Len(value.v) |-> convertValueToProtobuf(value.v[i])]]]
    ELSE IF value.t = "object"
    THEN [structValue |->
            [fields |-> [k \in DOMAIN value.v |-> convertValueToProtobuf(value.v[k])]]]
    ELSE \* fallback: String(value)
         [stringValue |-> "String(" \o value.v \o ")"]

\* convertToProtobufStruct(data): the properties of a JS object.
convertToProtobufStruct(data) ==
    [fields |-> [k \in DOMAIN data.v |-> convertValueToProtobuf(data.v[k])]]

\* A wire position that holds null or undefined: !value, !struct.
Falsy(value) == Has(value, "t") /\ value.t \in {"undefined", "null"}

RECURSIVE valueToJS(_)
RECURSIVE structToObject(_)

\* A decoder without the guard on struct.fields: Object.entries(undefined)
\* raises a TypeError, which takes the place of the decoded object.
structToObject_RequiresFields(struct) ==
    IF Falsy(struct) THEN JsObj(<<>>)
    ELSE IF ~Has(struct, "fields") THEN [t |-> "TypeError"]
    ELSE JsObj([key \in DOMAIN struct.fields |-> valueToJS(struct.fields[key])])

\* structToObject(struct): a google.protobuf.Struct shape to a JS object.
structToObject(struct) ==
    IF Falsy(struct) THEN JsObj(<<>>)
    ELSE IF ~Has(struct, "fields") THEN JsObj(<<>>)
    ELSE JsObj([key \in DOMAIN struct.fields |-> valueToJS(struct.fields[key])])

\* A decoder that tests the tags for truthiness, if (value.stringValue), so
\* that "", 0 and false fall through to the unknown case.
valueToJS_TruthyTags(value) ==
    IF Falsy(value) THEN JsNull
    ELSE IF Has(value, "stringValue") /\ value.stringValue # ""
    THEN JsStr(value.stringValue)
    ELSE IF Has(value, "numberValue") /\ value.numberValue # 0
    THEN JsNum(value.numberValue)
    ELSE IF Has(value, "boolValue") /\ value.boolValue THEN JsBool(value.boolValue)
    ELSE IF Has(value, "structValue") THEN structToObject(value.structValue)
    ELSE IF Has(value, "listValue") /\ Has(value.listValue, "values")
    THEN JsList([i \in 1..Len(value.listValue.values) |->
                    valueToJS(value.listValue.values[i])])
    ELSE JsNull

\* valueToJS(value): a google.protobuf.Value shape to a JS value; the tags
\* are tried in the order of the else-if chain.
valueToJS(value) ==
    IF Falsy(value) THEN JsNull
    ELSE IF Has(value, "stringValue") THEN JsStr(value.stringValue)
    ELSE IF Has(value, "numberValue") THEN JsNum(value.numberValue)
    ELSE IF Has(value, "boolValue") THEN JsBool(value.boolValue)
    ELSE IF Has(value, "structValue") THEN structToObject(value.structValue)
    ELSE IF Has(value, "listValue") /\ Has(value.listValue, "values")
    THEN JsList([i \in 1..Len(value.listValue.values) |->
                    valueToJS(value.listValue.values[i])])
    ELSE IF Has(value, "nullValue") THEN JsNull
    ELSE \* unknown type
         JsNull

\* ----------------------------------------------------------- schema export
\* JS truthiness of a string property (undefined is modelled as "").
Truthy(text) == text # ""

RECURSIVE convertTypeToProtobuf(_)
RECURSIVE convertArgsToProtobuf(_)
RECURSIVE convertFieldToProtobuf(_)

\* The converter as it was before scalarType was added to it: name and kind
\* only, so that the host takes every scalar for a String.
convertTypeToProtobuf_DropsScalarType(typeDef) ==
    IF Has(typeDef, "str") THEN [name |-> [stringValue |-> typeDef.str]]
    ELSE LET keys == {k \in {"name", "kind"} : Has(typeDef, k) /\ Truthy(typeDef[k])}
                     \cup {k \in {"ofType", "fields"} : Has(typeDef, k)}
         IN [k \in keys |->
                IF k = "ofType"
                THEN [structValue |-> [fields |-> convertTypeToProtobuf(typeDef.ofType)]]
                ELSE IF k = "fields"
                THEN [structValue |-> [fields |->
                        [fn \in DOMAIN typeDef.fields |->
                            [structValue |->
                                [fields |-> convertFieldToProtobuf(typeDef.fields[fn])]]]]]
                ELSE [stringValue |-> typeDef[k]]]

\* convertTypeToProtobuf(typeDef). A type given as a bare string is the record
\* [str |-> name]; otherwise typeDef is the object the type helpers build.
convertTypeToProtobuf(typeDef) ==
    IF Has(typeDef, "str") THEN [name |-> [stringValue |-> typeDef.str]]
    ELSE LET keys == {k \in {"name", "kind", "scalarType"} :
                        Has(typeDef, k) /\ Truthy(typeDef[k])}
                     \cup {k \in {"ofType", "fields"} : Has(typeDef, k)}
         IN [k \in keys |->
                IF k = "ofType"
                THEN [structValue |-> [fields |-> convertTypeToProtobuf(typeDef.ofType)]]
                ELSE IF k = "fields"
                THEN [structValue |-> [fields |->
                        [fn \in DOMAIN typeDef.fields |->
                            [structValue |->
                                [fields |-> convertFieldToProtobuf(typeDef.fields[fn])]]]]]
                ELSE [stringValue |-> typeDef[k]]]

\* A converter that hands the nested properties to the field routine,
\* one property at a time, instead of recursing into itself.
convertArgsToProtobuf_PropertiesAsFields(args) ==
    [argName \in DOMAIN args |->
        LET argDef == args[argName]
            keys == {k \in {"type"} : Has(argDef, k)}
                    \cup {k \in {"description"} : Has(argDef, k) /\ Truthy(argDef[k])}
                    \cup {k \in {"properties"} : Has(argDef, "properties")}
        IN [structValue |-> [fields |->
              [k \in keys |->
                 IF k = "type"
                 THEN [structValue |-> [fields |-> convertTypeToProtobuf(argDef.type)]]
                 ELSE IF k = "description"
                 THEN [stringValue |-> argDef.description]
                 ELSE [structValue |-> [fields |->
                        [p \in DOMAIN argDef.properties |->
                            [structValue |-> [fields |->
                                convertFieldToProtobuf(argDef.properties[p])]]]]]]]]]

\* convertArgsToProtobuf(args): args maps argument names to definitions.
convertArgsToProtobuf(args) ==
    [argName \in DOMAIN args |->
        LET argDef == args[argName]
            keys == {k \in {"type"} : Has(argDef, k)}
                    \cup {k \in {"description"} : Has(argDef, k) /\ Truthy(argDef[k])}
                    \cup {k \in {"properties"} :
                            Has(argDef, "properties")
                            \/ (Has(argDef, "type") /\ Has(argDef.type, "fields"))}
        IN [structValue |-> [fields |->
              [k \in keys |->
                 IF k = "type"
                 THEN [structValue |-> [fields |-> convertTypeToProtobuf(argDef.type)]]
                 ELSE IF k = "description"
                 THEN [stringValue |-> argDef.description]
                 ELSE IF Has(argDef, "properties")
                 THEN [structValue |->
                         [fields |-> convertArgsToProtobuf(argDef.properties)]]
                 ELSE [structValue |->
                         [fields |-> convertArgsToProtobuf(argDef.type.fields)]]]]]]

\* convertFieldToProtobuf(fieldDef)
convertFieldToProtobuf(fieldDef) ==
    LET keys == {k \in {"type"} : Has(fieldDef, k)}
                \cup {k \in {"description", "resolve"} :
                        Has(fieldDef, k) /\ Truthy(fieldDef[k])}
                \cup {k \in {"args"} : Has(fieldDef, k) /\ DOMAIN fieldDef.args # {}}
    IN [k \in keys |->
           IF k = "type"
           THEN [structValue |-> [fields |-> convertTypeToProtobuf(fieldDef.type)]]
           ELSE IF k = "args"
           THEN [structValue |-> [fields |-> convertArgsToProtobuf(fieldDef.args)]]
           ELSE [stringValue |-> fieldDef[k]]]

\* Object.fromEntries(map) followed by the local convertToProtobufStruct of
\* handleSchemaRegister: one struct entry per key of the Map.
SchemaStruct(map) ==
    [fields |->
        [n \in {m \in DOMAIN map : map[m] # None} |->
            [structValue |-> [fields |-> convertFieldToProtobuf(fieldObj[map[n]])]]]]

\* ------------------------------------------------------------ RPC handlers
\* The arguments of init(name, version, apiKey) in the plugin's main().
PluginName == "test-plugin"
PluginVersion == "1.0.0"

\* grpc dispatches a call to a handler only while the server is started.
Accepting == phase = "Serving"

\* The slot c is free for a new call of method rpc.
NewCall(c, rpc) == [IdleCall EXCEPT !.rpc = rpc]
SlotFree(c) == calls[c].st = "idle"

\* Bookkeeping of the model: a call whose response was handed to the
\* transport (or whose handler promise was rejected) is no longer tracked,
\* and its slot can take the next call.
forget(c) ==
    /\ phase \in {"Serving", "ShuttingDown"}
    /\ calls[c].st \in {"done", "rejected"}
    /\ calls' = [calls EXCEPT ![c] = IdleCall]
    /\ UNCHANGED <<regVars, bootVars, stderr, env>>

\* callback(null, response): the call completes at the transport layer.
Responded(call, response) ==
    [call EXCEPT !.st = "done", !.cb = call.cb + 1, !.resp = <<response>>]

\* Init requests: the list under the proto's field name env_vars (what the
\* loader delivers with keepCase) or under envVars (what the handler reads).
EnvVarLists == {<<>>, <<[key |-> "A", value |-> "1"]>>}
InitRequests == {[env_vars |-> l] : l \in EnvVarLists}
                \cup {[envVars |-> l] : l \in EnvVarLists}

\* for (const env of request.envVars) process.env[env.key] = env.value
RECURSIVE ApplyEnv(_, _)
ApplyEnv(e, list) ==
    IF list = <<>> THEN e
    ELSE ApplyEnv([e EXCEPT ![Head(list).key] = Head(list).value], Tail(list))

\* handleInit(call, callback)
handleInit(c, request) ==
    /\ Accepting /\ SlotFree(c)
    /\ env' = IF Has(request, "envVars") THEN ApplyEnv(env, request.envVars) ELSE env
    /\ stderr' = stderr \cup {"log"}
    /\ calls' = [calls EXCEPT ![c] = Responded(
            [NewCall(c, "Init") EXCEPT !.request = <<request>>],
            [success |-> TRUE,
             message |-> <<"Plugin '", PluginName, "' initialized successfully">>])]
    /\ UNCHANGED <<regVars, bootVars>>

\* handleMigration(call, callback)
handleMigration(c) ==
    /\ Accepting /\ SlotFree(c)
    /\ stderr' = stderr \cup {"log"}
    /\ calls' = [calls EXCEPT ![c] = Responded(NewCall(c, "Migration"),
            [success |-> TRUE,
             message |-> <<"No migration needed for plugin '", PluginName, "'">>])]
    /\ UNCHANGED <<regVars, bootVars, env>>

\* handleSchemaRegister(call, callback)
handleSchemaRegister(c) ==
    /\ Accepting /\ SlotFree(c)
    /\ stderr' = stderr \cup {"log"}
    /\ calls' = [calls EXCEPT ![c] = Responded(NewCall(c, "SchemaRegister"),
            [schema |-> [queries |-> SchemaStruct(queries),
                         mutations |-> SchemaStruct(mutations),
                         subscriptions |-> [fields |-> <<>>]]])]
    /\ UNCHANGED <<regVars, bootVars, env>>

\* A handler that builds its answer by taking the endpoints out of the list
\* (restAPIs.shift() until empty), leaving the registry empty.
handleRESTApiRegister_DrainsTheList(c) ==
    /\ Accepting /\ SlotFree(c)
    /\ stderr' = stderr \cup {"log"}
    /\ calls' = [calls EXCEPT ![c] = Responded(NewCall(c, "RESTApiRegister"),
            [apis |-> [i \in 1..Len(restAPIs) |->
                         [method |-> endpointObj[restAPIs[i]].method,
                          path |-> endpointObj[restAPIs[i]].path,
                          description |-> endpointObj[restAPIs[i]].description,
                          schema |-> endpointObj[restAPIs[i]].schema]]])]
    /\ restAPIs' = <<>>
    /\ UNCHANGED <<fieldObj, endpointObj, queries, mutations, resolvers,
                   restHandlers, functions, healthChecks, regLog, bootVars, env>>

\* handleRESTApiRegister(call, callback)
handleRESTApiRegister(c) ==
    /\ Accepting /\ SlotFree(c)
    /\ stderr' = stderr \cup {"log"}
    /\ calls' = [calls EXCEPT ![c] = Responded(NewCall(c, "RESTApiRegister"),
            [apis |-> [i \in 1..Len(restAPIs) |->
                         [method |-> endpointObj[restAPIs[i]].method,
                          path |-> endpointObj[restAPIs[i]].path,
                          description |-> endpointObj[restAPIs[i]].description,
                          schema |-> endpointObj[restAPIs[i]].schema]]])]
    /\ UNCHANGED <<regVars, bootVars, env>>

\* handleGetVersion(call, callback)
handleGetVersion(c) ==
    /\ Accepting /\ SlotFree(c)
    /\ stderr' = stderr \cup {"log"}
    /\ calls' = [calls EXCEPT ![c] = Responded(NewCall(c, "GetVersion"),
            [version |-> PluginVersion])]
    /\ UNCHANGED <<regVars, bootVars, env>>

\* ------------------------------------------------------------ health check
MapSize(map) == Cardinality({k \in DOMAIN map : map[k] # None})

\* What probe i hands back to performHealthCheck for outcome o: the stored
\* per-probe result and whether it downgrades the aggregate status.
ProbeResult(o) ==
    IF o = "healthy" THEN JsObj([status |-> JsStr("healthy")])
    ELSE IF o = "error" THEN JsObj([status |-> JsStr("error")])
    ELSE IF o = "nostatus" THEN JsObj(<<>>)
    ELSE \* the probe throws Error("probe failed"): the catch records it
         JsObj([status |-> JsStr("error"), error |-> JsStr("probe failed")])

ProbeDegrades(o) == o \in {"error", "throw"}

\* The state of the probe loop before its first round: overallStatus,
\* customHealthResults, and the invocations made so far.
LoopStart == [overallStatus |-> "healthy", customHealthResults |-> <<>>, log |-> <<>>]

\* A loop that sets the aggregate from the current probe alone, so that a
\* healthy probe after a failed one turns the aggregate healthy again.
RECURSIVE ProbeLoop_StatusOfLastProbe(_, _, _)
ProbeLoop_StatusOfLastProbe(i, outs, acc) ==
    IF i >= Len(healthChecks) THEN acc
    ELSE LET checkName == "custom_check_" \o ToString(i)
             overallStatus == IF ProbeDegrades(outs[i + 1]) THEN "degraded"
                              ELSE "healthy"
         IN ProbeLoop_StatusOfLastProbe(i + 1, outs,
                [overallStatus |-> overallStatus,
                 customHealthResults |->
                    acc.customHealthResults @@ (checkName :> ProbeResult(outs[i + 1])),
                 log |-> Append(acc.log,
                            [probe |-> healthChecks[i + 1], context |-> JsObj(<<>>),
                             checkName |-> checkName, out |-> outs[i + 1],
                             overallStatus |-> overallStatus])])

\* for (let i = 0; i < this.healthChecks.length; i++): round i awaits
\* healthChecks[i](context), stores what it got (or the caught error) under
\* custom_check_<i> and may downgrade overallStatus. context is the decoded
\* context of a request that carries none. The log keeps, per round, the
\* probe invoked, its argument, its key, what it did and the status after it.
RECURSIVE ProbeLoop(_, _, _)
ProbeLoop(i, outs, acc) ==
    IF i >= Len(healthChecks) THEN acc
    ELSE LET checkName == "custom_check_" \o ToString(i)
             overallStatus == IF ProbeDegrades(outs[i + 1]) THEN "degraded"
                              ELSE acc.overallStatus
         IN ProbeLoop(i + 1, outs,
                [overallStatus |-> overallStatus,
                 customHealthResults |->
                    acc.customHealthResults @@ (checkName :> ProbeResult(outs[i + 1])),
                 log |-> Append(acc.log,
                            [probe |-> healthChecks[i + 1], context |-> JsObj(<<>>),
                             checkName |-> checkName, out |-> outs[i + 1],
                             overallStatus |-> overallStatus])])

\* performHealthCheck(context); outs[i] is what healthChecks[i] does.
performHealthCheck(outs) ==
    LET run == ProbeLoop(0, outs, LoopStart)
        overallStatus == run.overallStatus
        customHealthResults == run.customHealthResults
        base ==
            [status |-> JsStr(overallStatus),
             plugin_id |-> JsStr(PluginName),
             version |-> JsStr(PluginVersion),
             timestamp |-> JsStr("<now>"),
             uptime |-> JsNum(0),
             memory_usage |-> JsObj(<<>>),
             capabilities |-> JsObj(
                [graphql_queries |-> JsBool(MapSize(queries) > 0),
                 graphql_mutations |-> JsBool(MapSize(mutations) > 0),
                 rest_endpoints |-> JsBool(Len(restAPIs) > 0),
                 custom_functions |-> JsBool(MapSize(functions) > 0),
                 health_checks |-> JsBool(Len(healthChecks) > 0)]),
             environment |-> JsObj([pid |-> JsNum(0), node_version |-> JsStr("<node>"),
                                    platform |-> JsStr("<platform>"),
                                    arch |-> JsStr("<arch>")])]
    IN IF DOMAIN outs = {} THEN JsObj(base)
       ELSE JsObj([k \in DOMAIN base \cup {"custom_health_checks"} |->
                     IF k = "custom_health_checks" THEN JsObj(customHealthResults)
                     ELSE base[k]])

\* ----------------------------------------------------------------- Execute
\* map.has(key)
MapHas(map, key) == key \in DOMAIN map /\ map[key] # None

Invoke(handler) == [tag |-> "invoke", handler |-> handler, value |-> JsNull, message |-> <<>>]
Value(v) == [tag |-> "value", handler |-> None, value |-> v, message |-> <<>>]
Throw(message) == [tag |-> "throw", handler |-> None, value |-> JsNull, message |-> message]

\* The if / else-if chain of handleExecute on request.function_type: which
\* handler is awaited, which value is produced at once, or which Error is thrown.
Dispatch(functionType, functionName) ==
    IF functionType = "graphql_query"
    THEN IF MapHas(resolvers, functionName) THEN Invoke(resolvers[functionName])
         ELSE Throw(<<"Query resolver not found: ", functionName>>)
    ELSE IF functionType = "graphql_mutation"
    THEN IF MapHas(resolvers, functionName) THEN Invoke(resolvers[functionName])
         ELSE Throw(<<"Mutation resolver not found: ", functionName>>)
    ELSE IF functionType = "rest_api"
    THEN IF MapHas(restHandlers, functionName) THEN Invoke(restHandlers[functionName])
         ELSE Throw(<<"REST handler not found: ", functionName>>)
    ELSE IF functionType = "custom_function"
    THEN IF MapHas(functions, functionName)
         THEN IF functions[functionName] = Undefined
              THEN \* calling undefined raises a TypeError inside the try block
                   Throw(<<"this.functions.get(...) is not a function">>)
              ELSE Invoke(functions[functionName])
         ELSE Throw(<<"Custom function not found: ", functionName>>)
    ELSE IF functionType = "system"
    THEN IF functionName = HealthCheckName
         THEN Value(JsObj([status |-> JsStr("healthy"), plugin |-> JsStr(PluginName),
                           version |-> JsStr(PluginVersion),
                           timestamp |-> JsStr("<now>")]))
         ELSE Throw(<<"Unknown system function: ", functionName>>)
    ELSE Throw(<<"Unknown function type: ", functionType>>)

ValueTypeUrl == "type.googleapis.com/google.protobuf.Value"
StructTypeUrl == "type.googleapis.com/google.protobuf.Struct"

\* A response built on typeof result === 'object' alone, which is also true
\* of an array: the list goes out as a Struct keyed by its indices.
SuccessResponse_ListAsStruct(result) ==
    [success |-> TRUE,
     result |-> <<[typeUrl |-> IF result.t \in {"object", "list"}
                               THEN StructTypeUrl ELSE ValueTypeUrl,
                   value |-> IF result.t \in {"object", "list"}
                             THEN convertToProtobufStruct(result)
                             ELSE convertValueToProtobuf(result)]>>,
     error |-> <<>>]

\* The object handed to callback(null, ...) after the handler returned result:
\* value is the document JSON.stringify writes for the converted result.
SuccessResponse(result) ==
    [success |-> TRUE,
     result |-> <<[typeUrl |-> IF result.t = "object" THEN StructTypeUrl ELSE ValueTypeUrl,
                   value |-> IF result.t = "list" THEN convertValueToProtobuf(result)
                             ELSE IF result.t = "object" THEN convertToProtobufStruct(result)
                             ELSE convertValueToProtobuf(result)]>>,
     error |-> <<>>]

\* error.message of a caught value that is not null or undefined: the message
\* of an Error; undefined (modelled as the empty text) for a primitive.
MessageOf(thrown) == IF thrown.t = "Error" THEN thrown.message ELSE <<>>

\* The object handed to callback(null, ...) by the catch block.
FailureResponse(thrown) ==
    [success |-> FALSE, result |-> <<>>, error |-> MessageOf(thrown)]

\* Reading error.message of null or undefined throws inside the catch block.
CatchThrows(thrown) == thrown.t \in {"null", "undefined"}

\* The catch block of handleExecute for the caught value.
Caught(call, thrown) ==
    IF CatchThrows(thrown)
    THEN \* the async function rejects: no callback, an unhandled rejection
         [call EXCEPT !.st = "rejected"]
    ELSE Responded(call, FailureResponse(thrown))

\* An unhandled promise rejection ends the process with status 1 under the
\* default of current Node.js and only warns under older ones (crash = FALSE).
AfterRejection(crash) ==
    IF crash THEN Exited(1, lifecycle)
    ELSE UNCHANGED <<phase, exitCode, lifecycle>>

\* handleExecute(call, callback) up to its await: the slot c takes a new call
\* whose request holds function_type, function_name and args (a Struct, or
\* undefined when the host sent none).
handleExecute(c, functionType, functionName, args) ==
    /\ Accepting /\ SlotFree(c)
    /\ LET d == Dispatch(functionType, functionName)
           decoded == IF Falsy(args) THEN JsObj(<<>>) ELSE structToObject(args)
           call == [NewCall(c, "Execute") EXCEPT !.kind = functionType,
                                                !.name = functionName,
                                                !.request = <<[args |-> args]>>,
                                                !.args = <<decoded>>]
       IN calls' = [calls EXCEPT ![c] =
            IF d.tag = "invoke"
            THEN [call EXCEPT !.st = "awaiting", !.handler = d.handler]
            ELSE IF d.tag = "value" THEN Responded(call, SuccessResponse(d.value))
            ELSE Caught(call, JsError(d.message))]
    /\ stderr' = stderr \cup {"log"}
    /\ UNCHANGED <<regVars, bootVars, env>>

\* new GraphQLError(message, extensions): an Error that also carries a name
\* and an extension map.
GraphQLError(message, extensions) ==
    [t |-> "Error", message |-> message, name |-> "GraphQLError",
     extensions |-> extensions]

\* The error constructors of the helpers, as a resolver uses them.
createValidationError(message, field) ==
    GraphQLError(message, [code |-> "VALIDATION_ERROR", field |-> field])
createAuthenticationError(message) == GraphQLError(message, [code |-> "UNAUTHENTICATED"])
createAuthorizationError(message) == GraphQLError(message, [code |-> "FORBIDDEN"])
createNotFoundError(message, resource) ==
    GraphQLError(message, [code |-> "NOT_FOUND", resource |-> resource])
createInternalError(message) == GraphQLError(message, [code |-> "INTERNAL_ERROR"])
createBadUserInputError(message, field) ==
    GraphQLError(message, [code |-> "BAD_USER_INPUT", field |-> field])

\* Outcomes of a resolver that throws one of the GraphQL errors.
GraphQLOutcomes ==
    {"throwValidation", "throwAuthentication", "throwAuthorization",
     "throwNotFound", "throwInternal", "throwBadInput"}

\* What a user handler hands back for an outcome.
ReturnValue(handler) == JsStr("result of " \o handler)
ThrownValue(outcome) ==
    IF outcome = "throwError" THEN JsError(<<"boom">>)
    ELSE IF outcome = "throwString" THEN JsStr("oops")
    ELSE IF outcome = "throwNull" THEN JsNull
    ELSE IF outcome = "throwValidation"
    THEN createValidationError(<<"Tenant ID is required">>, "tenant_id")
    ELSE IF outcome = "throwAuthentication"
    THEN createAuthenticationError(<<"Authentication required">>)
    ELSE IF outcome = "throwAuthorization"
    THEN createAuthorizationError(<<"Access denied">>)
    ELSE IF outcome = "throwNotFound"
    THEN createNotFoundError(<<"Resource not found">>, "tenant")
    ELSE IF outcome = "throwInternal"
    THEN createInternalError(<<"Internal server error">>)
    ELSE IF outcome = "throwBadInput"
    THEN createBadUserInputError(<<"Bad input">>, "tenant_id")
    ELSE JsUndefined

\* The continuation of handleExecute once the awaited user handler settles:
\* it returned result, or threw what the outcome names.
handleExecuteResume(c, outcome, result, crash) ==
    /\ phase \in {"Serving", "ShuttingDown"}
    /\ calls[c].st = "awaiting"
    /\ calls[c].handler \in ResolverIds
    /\ LET call == [calls[c] EXCEPT !.outcome = outcome]
           next == IF outcome = "return"
                   THEN Responded([call EXCEPT !.returned = <<result>>],
                                  SuccessResponse(result))
                   ELSE Caught(call, ThrownValue(outcome))
       IN /\ calls' = [calls EXCEPT ![c] = next]
          /\ IF next.st = "rejected" THEN AfterRejection(crash)
             ELSE /\ ~crash
                  /\ UNCHANGED <<phase, exitCode, lifecycle>>
    /\ stderr' = stderr \cup {"log"}
    /\ UNCHANGED <<regVars, server, protoDefinition, stdout, env>>

\* The continuation when the awaited handler is the built-in
\* performHealthCheck: it runs every probe and never throws.
handleExecuteHealth(c, outs) ==
    /\ phase \in {"Serving", "ShuttingDown"}
    /\ calls[c].st = "awaiting"
    /\ calls[c].handler = BuiltinHealth
    /\ calls' = [calls EXCEPT ![c] =
                    Responded([calls[c] EXCEPT !.outcome = "return",
                                               !.probed = ProbeLoop(0, outs, LoopStart).log],
                              SuccessResponse(performHealthCheck(outs)))]
    /\ stderr' = stderr \cup {"log"}
    /\ UNCHANGED <<regVars, bootVars, env>>

\* -------------------------------------------------------------- behaviours
Next ==
    \/ \E n \in Names, f \in FieldIds, r \in ResolverIds : registerQuery(n, f, r)
    \/ \E n \in Names, f \in FieldIds, r \in ResolverIds : registerMutation(n, f, r)
    \/ \E e \in EndpointIds, r \in ResolverIds : registerRESTAPI(e, r)
    \/ \E n \in FunctionNames, r \in ResolverIds : registerFunction(n, r)
    \/ \E p \in ProbeIds : registerHealthCheck(p)
    \/ \E pf \in BOOLEAN, sf \in BOOLEAN : serve(pf, sf)
    \/ \E err \in BOOLEAN, port \in Ports : bindCallback(err, port)
    \/ \E sig \in Signals : shutdown(sig)
    \/ \E err \in BOOLEAN : tryShutdownCallback(err)
    \/ \E c \in CallIds, req \in InitRequests : handleInit(c, req)
    \/ \E c \in CallIds : handleMigration(c)
    \/ \E c \in CallIds : handleSchemaRegister(c)
    \/ \E c \in CallIds : handleRESTApiRegister(c)
    \/ \E c \in CallIds : handleGetVersion(c)
    \/ \E c \in CallIds, k \in Kinds, n \in ExecNames :
            handleExecute(c, k, n, JsUndefined)
    \/ \E c \in CallIds, o \in Outcomes, crash \in BOOLEAN :
            handleExecuteResume(c, o, ReturnValue(calls[c].handler), crash)
    \/ \E c \in CallIds, outs \in [1..Len(healthChecks) -> ProbeOutcomes] :
            handleExecuteHealth(c, outs)
    \/ \E c \in CallIds : forget(c)

Spec == Init /\ [][Next]_vars

\* The same behaviours under the scheduling the runtime guarantees during a
\* drain: grpc invokes the tryShutdown callback once no call is pending, and
\* the built-in health check settles by itself when it has no probe to await.
\* Nothing makes a user handler or a probe settle, so handleExecuteResume is
\* not fair.
DrainSpec ==
    /\ Spec
    /\ WF_vars(\E err \in BOOLEAN : tryShutdownCallback(err))
    /\ WF_vars(\E c \in CallIds : healthChecks = <<>> /\ handleExecuteHealth(c, <<>>))

\* A plugin whose main() registers with the batch variants, and a host that
\* also sends function names of the form rest_<method>_<path segments>.
BatchNext ==
    \/ \E es \in FieldEntries, rs \in ResolverArgs : registerQueries(es, rs)
    \/ \E es \in FieldEntries, rs \in ResolverArgs : registerMutations(es, rs)
    \/ \E es \in EndpointArrays, hs \in [RestKeys -> ResolverIds \cup {None}] :
            registerRESTAPIs(es, hs)
    \/ \E es \in FunctionEntries : registerFunctions(es)
    \/ \E pf \in BOOLEAN, sf \in BOOLEAN : serve(pf, sf)
    \/ \E err \in BOOLEAN, port \in Ports : bindCallback(err, port)
    \/ \E c \in CallIds : handleSchemaRegister(c)
    \/ \E c \in CallIds : handleRESTApiRegister(c)
    \/ \E c \in CallIds, k \in Kinds, n \in ExecNames \cup StructuredNames :
            handleExecute(c, k, n, JsUndefined)
    \/ \E c \in CallIds, o \in Outcomes, crash \in BOOLEAN :
            handleExecuteResume(c, o, ReturnValue(calls[c].handler), crash)
    \/ \E c \in CallIds, outs \in [1..Len(healthChecks) -> ProbeOutcomes] :
            handleExecuteHealth(c, outs)
    \/ \E c \in CallIds : forget(c)

BatchSpec == Init /\ [][BatchNext]_vars

\* A host that keeps two Execute calls in flight at once: grpc-js hands
\* every incoming call to handleExecute, whose await yields to the event loop.
ConcCallIds == {"c1", "c2"}

ConcInit ==
    /\ fieldObj = InitialFieldObj
    /\ endpointObj = InitialEndpointObj
    /\ queries = [n \in Names |-> None]
    /\ mutations = [n \in Names |-> None]
    /\ resolvers = [n \in Names |-> None]
    /\ restAPIs = <<>>
    /\ restHandlers = [k \in RestKeys |-> None]
    /\ functions = [n \in FunctionNames |->
                        IF n = HealthCheckName THEN BuiltinHealth ELSE None]
    /\ healthChecks = <<>>
    /\ regLog = <<>>
    /\ phase = "Unstarted"
    /\ lifecycle = <<>>
    /\ server = None
    /\ protoDefinition = FALSE
    /\ stdout = <<>>
    /\ stderr = {"log"}
    /\ exitCode = <<>>
    /\ env = [k \in EnvKeys |-> IF k = "APITO_PLUGIN" THEN MagicCookie ELSE None]
    /\ calls = [c \in ConcCallIds |-> IdleCall]

ConcNext ==
    \/ \E n \in Names, r \in ResolverIds : registerQuery(n, "f1", r)
    \/ \E pf \in BOOLEAN, sf \in BOOLEAN : serve(pf, sf)
    \/ \E err \in BOOLEAN, port \in Ports : bindCallback(err, port)
    \/ \E sig \in Signals : shutdown(sig)
    \/ \E err \in BOOLEAN : tryShutdownCallback(err)
    \/ \E c \in ConcCallIds, n \in Names :
            handleExecute(c, "graphql_query", n, JsUndefined)
    \/ \E c \in ConcCallIds, o \in Outcomes, crash \in BOOLEAN :
            handleExecuteResume(c, o, ReturnValue(calls[c].handler), crash)
    \/ \E c \in ConcCallIds : forget(c)

ConcSpec == ConcInit /\ [][ConcNext]_vars

\* ---- values on the wire and in the handler
\* Scalars a handler returns: the empty string, 0 and false among them.
NativeScalars == {JsNull, JsStr(""), JsStr("a"), JsNum(0), JsBool(FALSE)}
\* Values convertValueToProtobuf has no case of its own for.
UnsupportedNatives == {JsUndefined, JsFunction("fn")}

\* Lists and objects over a set of values: [], [v], [v, "a"], {}, {k: v}.
Nested(values) ==
    {JsList(<<>>), JsObj(<<>>)}
    \cup {JsList(<<v>>) : v \in values}
    \cup {JsList(<<v, JsStr("a")>>) : v \in values}
    \cup {JsObj([k |-> v]) : v \in values}

RECURSIVE NativeValues(_, _)
NativeValues(scalars, depth) ==
    IF depth = 0 THEN scalars
    ELSE LET inner == NativeValues(scalars, depth - 1) IN inner \cup Nested(inner)

\* What a handler may return.
HandlerResults == NativeValues(NativeScalars \cup UnsupportedNatives, MaxDepth)

\* google.protobuf.Value shapes with one recognised tag.
WireScalars ==
    {[stringValue |-> ""], [stringValue |-> "a"], [numberValue |-> 0],
     [boolValue |-> FALSE], [nullValue |-> 0]}
\* Shapes valueToJS has no case for: an absent value, null, an object with
\* no recognised tag, a struct value without fields, a list value without
\* values.
MalformedWire ==
    {JsUndefined, JsNull, [unknownValue |-> "a"], [structValue |-> <<>>],
     [listValue |-> <<>>]}

WireNested(values) ==
    {[listValue |-> [values |-> <<>>]], [structValue |-> [fields |-> <<>>]]}
    \cup {[listValue |-> [values |-> <<w>>]] : w \in values}
    \cup {[structValue |-> [fields |-> [k |-> w]]] : w \in values}

RECURSIVE WireValues(_, _)
WireValues(scalars, depth) ==
    IF depth = 0 THEN scalars
    ELSE LET inner == WireValues(scalars, depth - 1) IN inner \cup WireNested(inner)

\* request.args of an Execute call: absent, a Struct without fields, or a
\* Struct with one field.
ArgStructs ==
    {JsUndefined, <<>>, [fields |-> <<>>]}
    \cup {[fields |-> [k |-> w]] :
            w \in WireValues(WireScalars \cup MalformedWire, MaxDepth - 1)}

\* A host that sends arguments with its Execute calls to a plugin whose
\* resolver returns values of every shape or throws.
CodecNext ==
    \/ registerQuery("x", "f1", "r1")
    \/ \E pf \in BOOLEAN, sf \in BOOLEAN : serve(pf, sf)
    \/ \E err \in BOOLEAN, port \in Ports : bindCallback(err, port)
    \/ \E c \in CallIds, args \in ArgStructs :
            handleExecute(c, "graphql_query", "x", args)
    \/ \E c \in CallIds, o \in (Outcomes \ {"return"}) \cup GraphQLOutcomes,
           crash \in BOOLEAN :
            handleExecuteResume(c, o, JsUndefined, crash)
    \/ \E c \in CallIds, result \in HandlerResults :
            handleExecuteResume(c, "return", result, FALSE)
    \/ \E c \in CallIds : forget(c)

CodecSpec == Init /\ [][CodecNext]_vars

\* ---- a plugin whose fields carry arguments and wrapped types
createNonNullType(ofType) == [kind |-> "non_null", ofType |-> ofType]
createListType(ofType) == [kind |-> "list", ofType |-> ofType]
createObjectType(name, fields) == [kind |-> "object", name |-> name, fields |-> fields]

BooleanArg(description) ==
    [type |-> createScalarType("Boolean"), description |-> description]
NonNullArg(argType, description) ==
    [type |-> createNonNullType(createScalarType(argType)), description |-> description]
\* ListArg(itemType, description) for a scalar itemType
ListArg(itemType, description) ==
    [type |-> createListType(createScalarType(itemType)), description |-> description]
ObjectArg(description, properties) ==
    [type |-> [str |-> "Object"], description |-> description, properties |-> properties]

\* FieldWithArgs(fieldType, description, args) for a scalar fieldType
FieldWithArgs(fieldType, description, args) ==
    [type |-> createScalarType(fieldType), description |-> description,
     args |-> args, resolve |-> ""]
NonNullListField(itemType, description) ==
    [type |-> createNonNullType(createListType(createNonNullType(
                createScalarType(itemType)))),
     description |-> description, args |-> <<>>, resolve |-> ""]
ObjectFieldWithArgs(description, fields, args) ==
    [type |-> createObjectType("Object", fields), description |-> description,
     args |-> args, resolve |-> ""]

\* The descriptors of that plugin: f1 is a String field with a Boolean, a
\* non-null Int, a list-of-Float and an object argument whose properties hold
\* a Boolean and a further object; f2 is an object field with a
\* non-null-list-of-Boolean field and a Boolean argument.
SchemaFieldObj ==
    [f \in FieldIds |->
        IF f = "f1"
        THEN FieldWithArgs("String", "first",
                [active |-> BooleanArg("flag"),
                 limit |-> NonNullArg("Int", "count"),
                 ids |-> ListArg("Float", "numbers"),
                 filter |-> ObjectArg("where",
                    [deep |-> BooleanArg("nested flag"),
                     inner |-> ObjectArg("nested where",
                                    [leaf |-> BooleanArg("leaf flag")])])])
        ELSE ObjectFieldWithArgs("second",
                [ok |-> NonNullListField("Boolean", "flags")],
                [active |-> BooleanArg("flag")])]

SchemaInit ==
    /\ fieldObj = SchemaFieldObj
    /\ endpointObj = InitialEndpointObj
    /\ queries = [n \in Names |-> None]
    /\ mutations = [n \in Names |-> None]
    /\ resolvers = [n \in Names |-> None]
    /\ restAPIs = <<>>
    /\ restHandlers = [k \in RestKeys |-> None]
    /\ functions = [n \in FunctionNames |->
                        IF n = HealthCheckName THEN BuiltinHealth ELSE None]
    /\ healthChecks = <<>>
    /\ regLog = <<>>
    /\ phase = "Unstarted"
    /\ lifecycle = <<>>
    /\ server = None
    /\ protoDefinition = FALSE
    /\ stdout = <<>>
    /\ stderr = {"log"}
    /\ exitCode = <<>>
    /\ env = [k \in EnvKeys |-> IF k = "APITO_PLUGIN" THEN MagicCookie ELSE None]
    /\ calls = [c \in CallIds |-> IdleCall]

SchemaNext ==
    \/ \E n \in Names, f \in FieldIds : registerQuery(n, f, "r1")
    \/ \E n \in Names, f \in FieldIds : registerMutation(n, f, "r2")
    \/ \E pf \in BOOLEAN, sf \in BOOLEAN : serve(pf, sf)
    \/ \E err \in BOOLEAN, port \in Ports : bindCallback(err, port)
    \/ \E c \in CallIds : handleSchemaRegister(c)
    \/ \E c \in CallIds : forget(c)

SchemaSpec == SchemaInit /\ [][SchemaNext]_vars

\* A plugin that registers two different health probes, and a host that
\* asks for the health record.
HealthProbes == {"p1", "p2"}

HealthNext ==
    \/ \E p \in HealthProbes : registerHealthCheck(p)
    \/ \E pf \in BOOLEAN, sf \in BOOLEAN : serve(pf, sf)
    \/ \E err \in BOOLEAN, port \in Ports : bindCallback(err, port)
    \/ \E c \in CallIds : handleExecute(c, "custom_function", HealthCheckName, JsUndefined)
    \/ \E c \in CallIds, outs \in [1..Len(healthChecks) -> ProbeOutcomes] :
            handleExecuteHealth(c, outs)
    \/ \E c \in CallIds : forget(c)

HealthSpec == Init /\ [][HealthNext]_vars

\* ---------------------------------------------------------------- properties
\* token occurs in the text (a sequence of tokens).
Contains(text, token) == \E i \in DOMAIN text : text[i] = token
\* The process went through the bootstrap state st.
Reached(st) == Contains(lifecycle, st)
\* seq is an initial part of full.
IsPrefix(seq, full) ==
    Len(seq) <= Len(full) /\ \A i \in DOMAIN seq : seq[i] = full[i]
\* The bootstrap history without the terminal Stopped.
Running == IF lifecycle # <<>> /\ lifecycle[Len(lifecycle)] = "Stopped"
           THEN SubSeq(lifecycle, 1, Len(lifecycle) - 1) ELSE lifecycle
HandshakeLines == {"1|1|tcp|127.0.0.1:" \o p \o "|grpc\n" : p \in Ports}

\* C1: over the whole lifetime (registration, bootstrap, RPC handlers,
\* shutdown) stdout holds nothing or exactly the one handshake line
\* 1|1|tcp|127.0.0.1:<port>|grpc, and it holds that line exactly when the
\* handshake was emitted; no log or diagnostic is on stdout.
C1_StdoutIsOnlyTheHandshake ==
    /\ Len(stdout) <= 1
    /\ \A i \in DOMAIN stdout : stdout[i] \in HandshakeLines
    /\ (Len(stdout) = 1) <=> Reached("HandshakeEmitted")

\* A full life: registrations, the handshake, an answered Execute, a clean exit.
C1_Witness ==
    /\ regLog # <<>>
    /\ exitCode = <<0>>
    /\ \E c \in CallIds : calls[c].rpc = "Execute" /\ calls[c].st = "done"
    /\ Len(stdout) = 1

\* C2: once serve() has run with APITO_PLUGIN unset, empty or different from
\* the expected literal, the process has exited with status 1 after a
\* diagnostic on stderr and no other bootstrap step ran: no descriptor loaded,
\* no server created or bound, nothing on stdout.
C2_BadSecretExitsFirst ==
    (phase # "Unstarted" /\ env["APITO_PLUGIN"] # MagicCookie) =>
        /\ phase = "Exited"
        /\ exitCode = <<1>>
        /\ "cookie_error" \in stderr
        /\ ~protoDefinition
        /\ server = None
        /\ stdout = <<>>
        /\ lifecycle = <<"Stopped">>

\* serve() ran with a set but wrong secret, after some registrations.
C2_Witness ==
    /\ env["APITO_PLUGIN"] = "wrong_cookie"
    /\ phase = "Exited"
    /\ regLog # <<>>

\* C3 as stated: the bootstrap history is an initial part of SecretValidated,
\* ListenerBound, HandshakeEmitted, Serving, ShuttingDown (then Stopped):
\* Serving is entered only after the handshake line has been written.
C3_HandshakeBeforeServing ==
    IsPrefix(Running, <<"SecretValidated", "ListenerBound", "HandshakeEmitted",
                        "Serving", "ShuttingDown">>)

\* C3 as the code has it: the bootstrap history is an initial part of
\* SecretValidated, ListenerBound, Serving, HandshakeEmitted, ShuttingDown
\* (Stopped may end it at any point): the server is started before the
\* handshake line is written, the line is written only with a bound and
\* started listener, and no RPC handler has run before the line is written.
C3_ServingBeforeHandshake ==
    /\ IsPrefix(Running, <<"SecretValidated", "ListenerBound", "Serving",
                           "HandshakeEmitted", "ShuttingDown">>)
    /\ stdout # <<>> => Reached("ListenerBound") /\ server # None /\ server # "created"
    /\ (\E c \in CallIds : calls[c].st # "idle") => stdout # <<>>

\* The whole order was walked, with a call handled on the way.
C3_Witness ==
    /\ lifecycle = <<"SecretValidated", "ListenerBound", "Serving",
                     "HandshakeEmitted", "ShuttingDown", "Stopped">>
    /\ \E c \in CallIds : calls[c].st = "done"

\* C4: after a bootstrap failure behind the secret check (descriptor not
\* found, PluginService missing, bind error) the process has exited with a
\* non-zero status and stdout is empty.
C4_BootstrapFailureExitsSilently ==
    (stderr \cap StartFailures # {}) =>
        /\ phase = "Exited"
        /\ exitCode # <<>> /\ exitCode # <<0>>
        /\ stdout = <<>>
        /\ ~Reached("HandshakeEmitted")
        /\ Reached("SecretValidated")

\* The listener failed to bind.
C4_Witness ==
    /\ BindFailed \in stderr
    /\ server = "created"
    /\ exitCode = <<1>>

\* The response handed to the callback of the answered call in slot c.
Response(c) == calls[c].resp[1]
\* The message field of an Execute response (empty when it has none).
MessageField(resp) == IF Has(resp, "message") THEN resp.message ELSE <<>>
\* The failure text of an Execute response, whichever field carries it.
FailureText(resp) ==
    IF MessageField(resp) # <<>> THEN resp.message
    ELSE IF Has(resp, "error") THEN resp.error ELSE <<>>
\* The positions of the calls op(name, ...) in the registration history.
RegIdx(op, name) ==
    {i \in DOMAIN regLog : regLog[i].op = op /\ regLog[i].name = name}
\* The last call op(name, ...) of the registration history.
LastRegistered(op, name) ==
    regLog[CHOOSE m \in RegIdx(op, name) : \A i \in RegIdx(op, name) : i <= m]
\* No register call ever named name, and it is not the built-in function.
Unregistered(name) ==
    name # HealthCheckName /\ \A i \in DOMAIN regLog : regLog[i].name # name
\* The operation kinds the contract lists for Execute.
ContractKinds ==
    {"graphql_query", "graphql_mutation", "function", "system", "rest_api", "rest"}

\* C5: every Execute call whose handler has settled was answered: its
\* callback was invoked exactly once, whatever the handler did (returned,
\* threw an Error, threw a non-Error such as null or undefined), and no
\* rejection escaped handleExecute.
C5_EveryExecuteAnswersOnce ==
    \A c \in CallIds :
        (calls[c].rpc = "Execute" /\ calls[c].st # "awaiting") =>
            calls[c].st = "done" /\ calls[c].cb = 1

\* C6: an Execute whose handler threw Error("boom") was answered with
\* success false and a message field containing "boom".
C6_BoomIsInTheMessage ==
    \A c \in CallIds :
        (calls[c].rpc = "Execute" /\ calls[c].outcome = "throwError") =>
            /\ calls[c].st = "done"
            /\ ~Response(c).success
            /\ Contains(MessageField(Response(c)), "boom")

\* C7: an Execute of any contract kind (graphql_query, graphql_mutation,
\* function, system, rest_api, rest) on a name no register call ever named is
\* answered with a failure whose text contains that name.
C7_UnknownNameIsNamed ==
    \A c \in CallIds :
        (calls[c].rpc = "Execute" /\ calls[c].kind \in ContractKinds
                                  /\ Unregistered(calls[c].name)) =>
            /\ calls[c].st = "done"
            /\ ~Response(c).success
            /\ Contains(FailureText(Response(c)), calls[c].name)

\* C8: for a name registered with registerQuery (once or more) and never as
\* a mutation, every Execute graphql_query on it invokes the resolver of the
\* last registerQuery call, never an earlier one, and the exported field of
\* the name is the field of that last call.
C8_LastQueryRegistrationWins ==
    \A n \in Names :
        RegIdx("registerQuery", n) # {} =>
            LET last == LastRegistered("registerQuery", n)
            IN /\ queries[n] = last.obj
               /\ RegIdx("registerMutation", n) = {} =>
                    \A c \in CallIds :
                        (calls[c].rpc = "Execute" /\ calls[c].kind = "graphql_query"
                                                  /\ calls[c].name = n) =>
                            calls[c].handler = last.handler
               /\ \A c \in CallIds :
                    calls[c].rpc = "SchemaRegister" =>
                        /\ n \in DOMAIN Response(c).schema.queries.fields
                        /\ Response(c).schema.queries.fields[n].structValue
                                .fields.description.stringValue
                             = InitialFieldObj[last.obj].description

\* registerQuery("x", f1, r1), registerQuery("x", f2, r2), then an Execute
\* graphql_query "x" that was answered after r2 ran.
C8_Witness ==
    /\ Len(regLog) = 2
    /\ \A i \in {1, 2} : regLog[i].op = "registerQuery" /\ regLog[i].name = "x"
    /\ regLog[1].obj # regLog[2].obj
    /\ regLog[1].handler # regLog[2].handler
    /\ \E c \in CallIds :
        /\ calls[c].rpc = "Execute" /\ calls[c].kind = "graphql_query"
        /\ calls[c].name = "x" /\ calls[c].st = "done"
        /\ calls[c].handler = regLog[2].handler

\* C9: the namespaces are separate: an Execute graphql_query on a name
\* registered with registerQuery invokes the resolver of the last
\* registerQuery call for it, whatever registerMutation did with the same
\* name, and likewise for graphql_mutation and registerMutation.
C9_NamespacesAreSeparate ==
    \A c \in CallIds :
        /\ (calls[c].rpc = "Execute" /\ calls[c].kind = "graphql_query"
                /\ RegIdx("registerQuery", calls[c].name) # {}) =>
              calls[c].handler = LastRegistered("registerQuery", calls[c].name).handler
        /\ (calls[c].rpc = "Execute" /\ calls[c].kind = "graphql_mutation"
                /\ RegIdx("registerMutation", calls[c].name) # {}) =>
              calls[c].handler = LastRegistered("registerMutation", calls[c].name).handler

\* C10: in every SchemaRegister response, each name registered with
\* registerQuery has an entry in the queries mapping whose resolve field is
\* that name, also when field descriptors are shared between register calls.
C10_ExportedResolveIsTheName ==
    \A c \in CallIds :
        calls[c].rpc = "SchemaRegister" =>
            \A n \in Names :
                RegIdx("registerQuery", n) # {} =>
                    /\ n \in DOMAIN Response(c).schema.queries.fields
                    /\ LET entry == Response(c).schema.queries.fields[n].structValue.fields
                       IN "resolve" \in DOMAIN entry /\ entry.resolve.stringValue = n

\* C11: a registered field descriptor is frozen: a register call under a
\* different name leaves the entry of every name registered before it (its
\* descriptor with type, description, args and resolve) unchanged, for
\* queries and for mutations.
C11_RegisteredDescriptorsAreFrozen ==
    [][\A n \in Names :
          (regLog' # regLog /\ regLog'[Len(regLog')].name # n) =>
              /\ queries[n] # None =>
                    queries'[n] = queries[n]
                    /\ fieldObj'[queries'[n]] = fieldObj[queries[n]]
              /\ mutations[n] # None =>
                    mutations'[n] = mutations[n]
                    /\ fieldObj'[mutations'[n]] = fieldObj[mutations[n]]]_vars

\* C12: after registerRESTAPI calls on one method+path key, an Execute
\* rest_api on the key invokes the handler of the last call, and every
\* RESTApiRegister response lists exactly one endpoint with that method and
\* path.
C12_ReRegisteredEndpointIsListedOnce ==
    \A k \in RestKeys :
        RegIdx("registerRESTAPI", k) # {} =>
            \A c \in CallIds :
                /\ (calls[c].rpc = "Execute" /\ calls[c].kind = "rest_api"
                                             /\ calls[c].name = k) =>
                      calls[c].handler = LastRegistered("registerRESTAPI", k).handler
                /\ calls[c].rpc = "RESTApiRegister" =>
                      Cardinality({i \in DOMAIN Response(c).apis :
                                     HandlerKey(Response(c).apis[i]) = k}) = 1

\* The batch register calls and the single-item calls a batch call has to
\* make: one per entry whose handler is present, in the order of the entries.
BatchOps == {"registerQueries", "registerMutations", "registerRESTAPIs",
             "registerFunctions"}
RECURSIVE ExpectedCalls(_, _)
ExpectedCalls(call, entries) ==
    IF entries = <<>> THEN <<>>
    ELSE LET e == Head(entries)
             one == IF call.op = "registerQueries"
                    THEN [op |-> "registerQuery", name |-> e.name, obj |-> e.field,
                          handler |-> call.handler[e.name]]
                    ELSE IF call.op = "registerMutations"
                    THEN [op |-> "registerMutation", name |-> e.name, obj |-> e.field,
                          handler |-> call.handler[e.name]]
                    ELSE IF call.op = "registerRESTAPIs"
                    THEN [op |-> "registerRESTAPI", name |-> HandlerKey(endpointObj[e]),
                          obj |-> e, handler |-> call.handler[HandlerKey(endpointObj[e])]]
                    ELSE [op |-> "registerFunction", name |-> e.name, obj |-> None,
                          handler |-> e.func]
         IN (IF one.handler \in ResolverIds THEN <<one>> ELSE <<>>)
            \o ExpectedCalls(call, Tail(entries))
\* The single-item calls logged between the batch call at i and the next one.
CallsMadeBy(i) ==
    LET later == {j \in DOMAIN regLog : j > i /\ regLog[j].op \in BatchOps}
        stop == IF later = {} THEN Len(regLog) + 1
                ELSE CHOOSE j \in later : \A k \in later : j <= k
    IN SubSeq(regLog, i + 1, stop - 1)

\* C13: every batch call (registerQueries, registerMutations,
\* registerRESTAPIs, registerFunctions) makes exactly the single-item calls of
\* the entries that have a handler, and a key that only occurs in entries
\* without handler has no entry in the registry.
C13_BatchRegistersPairedEntriesOnly ==
    \A i \in DOMAIN regLog :
        regLog[i].op \in BatchOps =>
            /\ CallsMadeBy(i) = ExpectedCalls(regLog[i], regLog[i].obj)
            /\ \A n \in Names \cup FunctionNames \cup RestKeys :
                  (\A j \in DOMAIN regLog :
                        regLog[j].op \in BatchOps \/ regLog[j].name # n
                        \/ regLog[j].handler \notin ResolverIds) =>
                      /\ n \in Names =>
                            queries[n] = None /\ mutations[n] = None
                            /\ resolvers[n] = None
                      /\ n \in RestKeys => restHandlers[n] = None
                      /\ n \in FunctionNames \ {HealthCheckName} => functions[n] = None

\* The result carried by a success response of Execute.
ResultOf(resp) == resp.result[1].value

\* C14: an Execute of kind function or system on a name registered with
\* registerFunction invokes the function of the last registerFunction call
\* for the name, and once that function has returned the call is answered
\* with success and the function's result.
C14_FunctionKindsUseTheFunctionRegistry ==
    \A c \in CallIds :
        (calls[c].rpc = "Execute" /\ calls[c].kind \in {"function", "system"}
                                  /\ RegIdx("registerFunction", calls[c].name) # {}) =>
            /\ calls[c].handler = LastRegistered("registerFunction", calls[c].name).handler
            /\ calls[c].outcome = "return" =>
                  /\ calls[c].st = "done"
                  /\ Response(c).success
                  /\ ResultOf(Response(c))
                       = convertValueToProtobuf(ReturnValue(calls[c].handler))

\* The per-probe results of an exported health record (none when absent).
CustomChecks(rec) ==
    IF "custom_health_checks" \in DOMAIN rec
    THEN rec.custom_health_checks.structValue.fields ELSE <<>>
\* The status an exported per-probe result reports ("" when it has none).
StatusOf(entry) ==
    IF "status" \in DOMAIN entry.structValue.fields
    THEN entry.structValue.fields.status.stringValue ELSE ""

\* C15: an Execute of kind system on the built-in health_check name is
\* answered with success without any registration, and its result is the
\* aggregated health record: status healthy when no probe is registered;
\* with probes registered it carries one result per probe, status degraded
\* when a probe reported a status other than healthy or threw, and status
\* healthy when every probe reported healthy.
C15_SystemHealthCheckAggregates ==
    \A c \in CallIds :
        (calls[c].rpc = "Execute" /\ calls[c].kind = "system"
                                  /\ calls[c].name = HealthCheckName
                                  /\ calls[c].st # "awaiting") =>
            /\ calls[c].st = "done"
            /\ Response(c).success
            /\ LET rec == ResultOf(Response(c)).fields
                   custom == CustomChecks(rec)
               IN /\ healthChecks = <<>> => rec.status.stringValue = "healthy"
                  /\ Cardinality(DOMAIN custom) = Len(healthChecks)
                  /\ (\E k \in DOMAIN custom : StatusOf(custom[k]) \notin {"", "healthy"})
                        => rec.status.stringValue = "degraded"
                  /\ (\A k \in DOMAIN custom : StatusOf(custom[k]) = "healthy")
                        => rec.status.stringValue = "healthy"

\* C17: the record performHealthCheck returns has status healthy when no
\* probe is registered; it has status degraded when some probe returned a
\* result whose status is not healthy (status error, or no status at all) or
\* threw, and healthy otherwise; a probe that threw is recorded as status
\* error with the message, and the record is still returned.
C17_ProbesDowngradeTheAggregate ==
    \A c \in CallIds :
        (calls[c].rpc = "Execute" /\ calls[c].handler = BuiltinHealth
                                  /\ calls[c].st # "awaiting") =>
            /\ calls[c].st = "done"
            /\ Response(c).success
            /\ LET rec == ResultOf(Response(c)).fields
                   custom == CustomChecks(rec)
               IN /\ Cardinality(DOMAIN custom) = Len(healthChecks)
                  /\ rec.status.stringValue =
                        IF \E k \in DOMAIN custom : StatusOf(custom[k]) # "healthy"
                        THEN "degraded" ELSE "healthy"
                  /\ \A k \in DOMAIN custom :
                        "error" \in DOMAIN custom[k].structValue.fields =>
                            StatusOf(custom[k]) = "error"

\* name.split('_'), name.toUpperCase() and parts.join('/') on the texts of
\* the model.
SplitUnderscore(name) ==
    CASE name = "rest_get_a" -> <<"rest", "get", "a">>
      [] name = "GET_/a" -> <<"GET", "/a">>
      [] name = "health_check" -> <<"health", "check">>
      [] OTHER -> <<name>>
ToUpperCase(text) == CASE text = "get" -> "GET" [] text = "rest" -> "REST" [] OTHER -> text
RECURSIVE JoinSlash(_)
JoinSlash(parts) ==
    IF parts = <<>> THEN ""
    ELSE IF Len(parts) = 1 THEN parts[1]
    ELSE parts[1] \o "/" \o JoinSlash(Tail(parts))
\* The method+path key a name of the form rest_<method>_<segments> encodes
\* (None for any other name).
StructuredKey(name) ==
    LET parts == SplitUnderscore(name)
    IN IF Len(parts) >= 3 /\ parts[1] = "rest"
       THEN ToUpperCase(parts[2]) \o "_" \o "/" \o JoinSlash(SubSeq(parts, 3, Len(parts)))
       ELSE None

\* C16: an Execute of kind rest_api or rest whose name is not a registered
\* handler key but has the form rest_<method>_<segments> is retried under
\* the reconstructed key <METHOD>_/<segments>: it invokes the handler
\* registered under that key, and fails when there is none.
C16_StructuredRestNameIsRetried ==
    \A c \in CallIds :
        (calls[c].rpc = "Execute" /\ calls[c].kind \in {"rest_api", "rest"}
            /\ ~MapHas(restHandlers, calls[c].name)
            /\ StructuredKey(calls[c].name) # None) =>
            IF MapHas(restHandlers, StructuredKey(calls[c].name))
            THEN calls[c].handler = restHandlers[StructuredKey(calls[c].name)]
            ELSE calls[c].st = "done" /\ ~Response(c).success

\* The environment-variable list an Init request carries, under the field
\* name of the protocol definition or under the camel-case one.
EnvListOf(request) ==
    IF Has(request, "env_vars") THEN request.env_vars
    ELSE IF Has(request, "envVars") THEN request.envVars ELSE <<>>

\* C18: an answered Init call reports success, and the process environment
\* maps every key of the request's environment-variable list to its value.
C18_InitAppliesTheEnvironment ==
    \A c \in CallIds :
        calls[c].rpc = "Init" =>
            /\ calls[c].st = "done"
            /\ Response(c).success
            /\ LET list == EnvListOf(calls[c].request[1])
               IN \A i \in DOMAIN list : env[list[i].key] = list[i].value

\* C19: once a termination signal has put the process in ShuttingDown, the
\* process eventually exits, also when a call in flight never completes.
C19_SignalLeadsToExit == (phase = "ShuttingDown") ~> (phase = "Exited")

\* C20: an error of the listener's shutdown is logged on stderr, not on
\* stdout, and the process has exited with status 1; the exit status is 0
\* only after a shutdown without error, and a shutdown without error (and
\* without a crash of a handler) ends with status 0.
C20_ShutdownErrorStillExits ==
    /\ "shutdown_error" \in stderr =>
            /\ phase = "Exited"
            /\ exitCode = <<1>>
            /\ Len(stdout) = 1 /\ stdout[1] \in HandshakeLines
    /\ exitCode = <<0>> =>
            Reached("ShuttingDown") /\ "shutdown_error" \notin stderr
    /\ (phase = "Exited" /\ Reached("ShuttingDown")
            /\ "shutdown_error" \notin stderr
            /\ \A c \in CallIds : calls[c].st # "rejected") =>
            exitCode = <<0>>

\* The listener's shutdown reported an error after a call had been answered.
C20_Witness ==
    /\ "shutdown_error" \in stderr
    /\ Reached("ShuttingDown")
    /\ phase = "Exited"
    /\ \E c \in CallIds : calls[c].st = "done"

\* C21: Execute calls do not block each other. While the handler of one call
\* is suspended, every other call can still be accepted and can still
\* progress; a call whose handler completed has received exactly one
\* response; and within a call the arguments are decoded before the handler
\* runs and the response is sent only after the handler completed.
C21_ConcurrentCallsAnswerIndependently ==
    \A c \in DOMAIN calls : \A d \in DOMAIN calls \ {c} :
        calls[d].st = "awaiting" =>
            /\ (Accepting /\ SlotFree(c)) =>
                    ENABLED handleExecute(c, "graphql_query", "x", JsUndefined)
            /\ calls[c].st = "awaiting" =>
                    /\ calls[c].args # <<>> /\ calls[c].resp = <<>> /\ calls[c].cb = 0
                    /\ ENABLED handleExecuteResume(c, "return",
                                    ReturnValue(calls[c].handler), FALSE)
            /\ (calls[c].rpc = "Execute" /\ calls[c].outcome # None) =>
                    /\ calls[c].st = "done"
                    /\ calls[c].cb = 1 /\ calls[c].resp # <<>>
            /\ (calls[c].handler # None /\ calls[c].resp # <<>>) =>
                    calls[c].outcome # None /\ calls[c].args # <<>>

\* The call in slot c is an Execute call whose handler returned a value.
Returned(c) == calls[c].rpc = "Execute" /\ calls[c].returned # <<>>
\* The call in slot c is an Execute call that came with an args Struct.
HasArgs(c) ==
    /\ calls[c].rpc = "Execute" /\ calls[c].request # <<>>
    /\ ~Falsy(calls[c].request[1].args)
    /\ Has(calls[c].request[1].args, "fields")
\* The wire values of the args Struct of the call in slot c.
ArgValues(c) ==
    LET fields == calls[c].request[1].args.fields
    IN {fields[key] : key \in DOMAIN fields}

\* v is built from strings, numbers, booleans, null, lists and structs only.
RECURSIVE IsPlain(_)
IsPlain(v) ==
    IF v.t \in {"string", "number", "boolean", "null"} THEN TRUE
    ELSE IF v.t \in {"list", "object"} THEN \A i \in DOMAIN v.v : IsPlain(v.v[i])
    ELSE FALSE

\* w is a wire value in canonical form: exactly one recognised tag, a null
\* value of 0, list values with a values array and struct values with a
\* fields map, at every depth.
RECURSIVE IsCanonical(_)
IsCanonical(w) ==
    /\ ~Falsy(w)
    /\ \/ DOMAIN w \in {{"stringValue"}, {"numberValue"}, {"boolValue"}}
       \/ DOMAIN w = {"nullValue"} /\ w.nullValue = 0
       \/ /\ DOMAIN w = {"listValue"} /\ DOMAIN w.listValue = {"values"}
          /\ \A i \in DOMAIN w.listValue.values : IsCanonical(w.listValue.values[i])
       \/ /\ DOMAIN w = {"structValue"} /\ DOMAIN w.structValue = {"fields"}
          /\ \A key \in DOMAIN w.structValue.fields :
                IsCanonical(w.structValue.fields[key])

\* C22 as stated: decode and encode are exact inverses. Every plain value a
\* handler returned survives encode then decode, and every wire value the
\* decoder took from a request survives decode then encode.
C22_CodecRoundTripsEveryAcceptedValue ==
    \A c \in DOMAIN calls :
        /\ (Returned(c) /\ IsPlain(calls[c].returned[1])) =>
                valueToJS(convertValueToProtobuf(calls[c].returned[1]))
                    = calls[c].returned[1]
        /\ HasArgs(c) =>
                \A w \in ArgValues(c) : convertValueToProtobuf(valueToJS(w)) = w

\* C22 as amended: every plain value survives encode then decode, and every
\* wire value in canonical form survives decode then encode.
C22_CodecRoundTripsCanonicalValues ==
    \A c \in DOMAIN calls :
        /\ (Returned(c) /\ IsPlain(calls[c].returned[1])) =>
                valueToJS(convertValueToProtobuf(calls[c].returned[1]))
                    = calls[c].returned[1]
        /\ HasArgs(c) =>
                \A w \in ArgValues(c) :
                    IsCanonical(w) => convertValueToProtobuf(valueToJS(w)) = w

\* A call that came with a canonical struct holding the empty string and
\* whose handler returned a list that holds an object holding 0.
C22_Witness ==
    \E c \in DOMAIN calls :
        /\ Returned(c) /\ HasArgs(c)
        /\ calls[c].returned[1] = JsList(<<JsObj([k |-> JsNum(0)])>>)
        /\ [structValue |-> [fields |-> [k |-> [stringValue |-> ""]]]] \in ArgValues(c)

RecognisedTags ==
    {"stringValue", "numberValue", "boolValue", "structValue", "listValue", "nullValue"}

\* v is what a lenient decoder makes of the wire value w: null where w is
\* absent, has no recognised tag or is a list value without values, the
\* empty object where w is a struct value without fields, and so on inside
\* every list and struct.
RECURSIVE DecodesLeniently(_, _)
DecodesLeniently(w, v) ==
    IF Falsy(w) THEN v = JsNull
    ELSE IF DOMAIN w \cap RecognisedTags = {} THEN v = JsNull
    ELSE IF DOMAIN w = {"structValue"}
    THEN IF Falsy(w.structValue) \/ ~Has(w.structValue, "fields")
         THEN v = JsObj(<<>>)
         ELSE /\ v.t = "object"
              /\ DOMAIN v.v = DOMAIN w.structValue.fields
              /\ \A key \in DOMAIN v.v :
                    DecodesLeniently(w.structValue.fields[key], v.v[key])
    ELSE IF DOMAIN w = {"listValue"}
    THEN IF ~Has(w.listValue, "values") THEN v = JsNull
         ELSE /\ v.t = "list"
              /\ Len(v.v) = Len(w.listValue.values)
              /\ \A i \in DOMAIN v.v : DecodesLeniently(w.listValue.values[i], v.v[i])
    ELSE v.t \in {"string", "number", "boolean", "null"}

\* w is an encoding of v in which every value of an unsupported type is the
\* string wire value of its string representation.
RECURSIVE EncodesWithFallback(_, _)
EncodesWithFallback(v, w) ==
    IF v.t = "function" THEN w = [stringValue |-> "String(" \o v.v \o ")"]
    ELSE IF v.t = "list"
    THEN /\ DOMAIN w = {"listValue"}
         /\ Len(w.listValue.values) = Len(v.v)
         /\ \A i \in DOMAIN v.v : EncodesWithFallback(v.v[i], w.listValue.values[i])
    ELSE IF v.t = "object"
    THEN /\ DOMAIN w = {"structValue"}
         /\ DOMAIN w.structValue.fields = DOMAIN v.v
         /\ \A key \in DOMAIN v.v :
                EncodesWithFallback(v.v[key], w.structValue.fields[key])
    ELSE DOMAIN w \subseteq RecognisedTags /\ Cardinality(DOMAIN w) = 1

\* C23: the codec is lenient and total. The arguments of every Execute
\* request decode to an object, with null or the empty object wherever the
\* request holds an absent value, a value without a recognised tag or a
\* struct without fields, at any depth; and every value a handler returned is
\* encoded, with a string wire value wherever it holds a function.
C23_CodecIsLenientAndTotal ==
    \A c \in DOMAIN calls :
        /\ (calls[c].rpc = "Execute" /\ calls[c].request # <<>>) =>
                LET sent == calls[c].request[1].args
                    decoded == calls[c].args[1]
                IN /\ decoded.t = "object"
                   /\ ~HasArgs(c) => decoded = JsObj(<<>>)
                   /\ HasArgs(c) =>
                        /\ DOMAIN decoded.v = DOMAIN sent.fields
                        /\ \A key \in DOMAIN decoded.v :
                                DecodesLeniently(sent.fields[key], decoded.v[key])
        /\ Returned(c) =>
                LET v == calls[c].returned[1]
                    w == ResultOf(Response(c))
                IN /\ calls[c].st = "done" /\ Response(c).success
                   /\ IF v.t = "object"
                      THEN EncodesWithFallback(v, [structValue |-> w])
                      ELSE EncodesWithFallback(v, w)

\* A call whose args held a list with a value of no recognised tag and a
\* struct value without fields was answered with the encoding of an object
\* that holds a function.
C23_Witness ==
    \E c \in DOMAIN calls :
        /\ Returned(c) /\ HasArgs(c) /\ calls[c].st = "done"
        /\ calls[c].returned[1] = JsObj([k |-> JsFunction("fn")])
        /\ \E w \in ArgValues(c) :
                w \in {[listValue |-> [values |-> <<[unknownValue |-> "a"]>>]],
                       [structValue |-> [fields |-> [k |-> [structValue |-> <<>>]]]]}

\* The exported struct of the field registered under name in the section
\* (queries or mutations) of a SchemaRegister response.
Exported(resp, section, name) == resp.schema[section].fields[name].structValue.fields

RECURSIVE TypeCarriesMarkers(_, _)
RECURSIVE FieldCarriesMarkers(_, _)
RECURSIVE ArgsCarryMarkers(_, _)

\* wire, the export of the type descriptor typeDef, carries at every scalar
\* descriptor a scalarType equal to the descriptor's primitive.
TypeCarriesMarkers(typeDef, wire) ==
    IF Has(typeDef, "str") THEN TRUE
    ELSE /\ (Has(typeDef, "kind") /\ typeDef.kind = "scalar") =>
                /\ Has(wire, "scalarType")
                /\ wire.scalarType = [stringValue |-> typeDef.scalarType]
         /\ Has(typeDef, "ofType") =>
                /\ Has(wire, "ofType")
                /\ TypeCarriesMarkers(typeDef.ofType, wire.ofType.structValue.fields)
         /\ Has(typeDef, "fields") =>
                /\ Has(wire, "fields")
                /\ \A fn \in DOMAIN typeDef.fields :
                        /\ fn \in DOMAIN wire.fields.structValue.fields
                        /\ FieldCarriesMarkers(typeDef.fields[fn],
                                wire.fields.structValue.fields[fn].structValue.fields)

FieldCarriesMarkers(fieldDef, wire) ==
    /\ Has(wire, "type")
    /\ TypeCarriesMarkers(fieldDef.type, wire.type.structValue.fields)
    /\ DOMAIN fieldDef.args # {} =>
            /\ Has(wire, "args")
            /\ ArgsCarryMarkers(fieldDef.args, wire.args.structValue.fields)

ArgsCarryMarkers(args, wire) ==
    \A a \in DOMAIN args :
        /\ a \in DOMAIN wire
        /\ Has(wire[a].structValue.fields, "type")
        /\ TypeCarriesMarkers(args[a].type, wire[a].structValue.fields.type.structValue.fields)
        /\ Has(args[a], "properties") =>
                /\ Has(wire[a].structValue.fields, "properties")
                /\ ArgsCarryMarkers(args[a].properties,
                        wire[a].structValue.fields.properties.structValue.fields)

\* A SchemaRegister call that was answered.
SchemaAnswered(c) == calls[c].rpc = "SchemaRegister" /\ calls[c].st = "done"

\* C24: in every SchemaRegister export, every scalar type descriptor (a
\* field's type, an argument's type, a nested property's type, or one inside
\* non-null and list wrappers) carries a scalarType marker equal to its
\* primitive.
C24_ScalarsCarryTheirPrimitive ==
    \A c \in DOMAIN calls : SchemaAnswered(c) =>
        /\ \A n \in {m \in Names : queries[m] # None} :
                FieldCarriesMarkers(fieldObj[queries[n]],
                                    Exported(Response(c), "queries", n))
        /\ \A n \in {m \in Names : mutations[m] # None} :
                FieldCarriesMarkers(fieldObj[mutations[n]],
                                    Exported(Response(c), "mutations", n))

\* The export of the query x registered with f1 marks the Boolean argument
\* as Boolean, and the export of the mutation y registered with f2 marks the
\* Boolean inside non-null(list(non-null)) as Boolean.
C24_Witness ==
    \E c \in DOMAIN calls :
        /\ SchemaAnswered(c)
        /\ queries["x"] = "f1" /\ mutations["y"] = "f2"
        /\ Exported(Response(c), "queries", "x").args.structValue.fields.active
                .structValue.fields.type.structValue.fields.scalarType
              = [stringValue |-> "Boolean"]
        /\ Exported(Response(c), "mutations", "y").type.structValue.fields.fields
                .structValue.fields.ok.structValue.fields.type.structValue.fields
                .ofType.structValue.fields.ofType.structValue.fields
                .ofType.structValue.fields.scalarType
              = [stringValue |-> "Boolean"]

\* The exported struct of the properties of the argument export wire.
PropertiesOf(wire) == wire.properties.structValue.fields

\* wire, the export of the argument map args, encodes every nested property
\* exactly as the field routine encodes the same descriptor, at every depth.
RECURSIVE PropertiesEncodedAsFields(_, _)
PropertiesEncodedAsFields(args, wire) ==
    \A a \in DOMAIN args : Has(args[a], "properties") =>
        LET w == wire[a].structValue.fields
        IN /\ Has(w, "properties")
           /\ DOMAIN PropertiesOf(w) = DOMAIN args[a].properties
           /\ \A p \in DOMAIN args[a].properties :
                PropertiesOf(w)[p].structValue.fields
                    = convertFieldToProtobuf(args[a].properties[p])
           /\ PropertiesEncodedAsFields(args[a].properties, PropertiesOf(w))

\* wire encodes every nested property with its type, its description and
\* its own properties, at every depth; a property that holds no more than a
\* description and a type without fields is encoded as the field routine
\* encodes it.
RECURSIVE PropertiesEncodedAsArguments(_, _)
PropertiesEncodedAsArguments(args, wire) ==
    \A a \in DOMAIN args : Has(args[a], "properties") =>
        LET w == wire[a].structValue.fields
        IN /\ Has(w, "properties")
           /\ DOMAIN PropertiesOf(w) = DOMAIN args[a].properties
           /\ \A p \in DOMAIN args[a].properties :
                LET d == args[a].properties[p]
                    e == PropertiesOf(w)[p].structValue.fields
                IN /\ Has(e, "type") /\ Has(e, "description")
                   /\ e.description = [stringValue |-> d.description]
                   /\ Has(e, "properties") <=> Has(d, "properties")
                   /\ (DOMAIN d \subseteq {"type", "description"}
                            /\ ~Has(d.type, "fields")) =>
                        e = convertFieldToProtobuf(d)
           /\ PropertiesEncodedAsArguments(args[a].properties, PropertiesOf(w))

\* C25 as stated: the nested properties of an argument are encoded by the
\* field routine, so each property's export equals convertFieldToProtobuf of
\* its descriptor.
C25_PropertiesUseTheFieldRoutine ==
    \A c \in DOMAIN calls : SchemaAnswered(c) =>
        \A n \in {m \in Names : queries[m] # None} :
            DOMAIN fieldObj[queries[n]].args # {} =>
                PropertiesEncodedAsFields(fieldObj[queries[n]].args,
                    Exported(Response(c), "queries", n).args.structValue.fields)

\* C25 as amended: the nested properties are encoded recursively by the
\* argument routine, which keeps the properties of a property; the export
\* equals the field routine's for a property without properties of its own.
C25_PropertiesUseTheArgumentRoutine ==
    \A c \in DOMAIN calls : SchemaAnswered(c) =>
        \A n \in {m \in Names : queries[m] # None} :
            DOMAIN fieldObj[queries[n]].args # {} =>
                PropertiesEncodedAsArguments(fieldObj[queries[n]].args,
                    Exported(Response(c), "queries", n).args.structValue.fields)

\* The export of the query y registered with f1 holds the property leaf of
\* the property inner of the argument filter.
C25_Witness ==
    \E c \in DOMAIN calls :
        /\ SchemaAnswered(c) /\ queries["y"] = "f1"
        /\ Has(PropertiesOf(PropertiesOf(
                    Exported(Response(c), "queries", "y").args.structValue.fields
                        .filter.structValue.fields).inner.structValue.fields),
               "leaf")

\* C26: a successful Execute encodes the handler's result by its shape: a
\* list as a wire list value, a non-null object as a wire struct, anything
\* else as a bare scalar wire value; and the type tag of the response is the
\* Struct tag exactly when the result is a non-null object that is no list.
C26_ResultIsEncodedByShape ==
    \A c \in DOMAIN calls : (Returned(c) /\ calls[c].st = "done") =>
        LET v == calls[c].returned[1]
            r == Response(c).result[1]
        IN /\ Response(c).success
           /\ v.t = "list" =>
                /\ DOMAIN r.value = {"listValue"}
                /\ Len(r.value.listValue.values) = Len(v.v)
           /\ v.t = "object" =>
                /\ DOMAIN r.value = {"fields"}
                /\ DOMAIN r.value.fields = DOMAIN v.v
           /\ v.t = "string" => r.value = [stringValue |-> v.v]
           /\ v.t = "number" => r.value = [numberValue |-> v.v]
           /\ v.t = "boolean" => r.value = [boolValue |-> v.v]
           /\ v.t \in {"null", "undefined"} => r.value = [nullValue |-> 0]
           /\ r.typeUrl = IF v.t = "object" THEN StructTypeUrl ELSE ValueTypeUrl

\* A handler returned the list ["", "a"] and the response holds a wire list
\* of two values under the Value tag.
C26_Witness ==
    \E c \in DOMAIN calls :
        /\ Returned(c) /\ calls[c].st = "done"
        /\ calls[c].returned[1] = JsList(<<JsStr(""), JsStr("a")>>)
        /\ Response(c).result[1].typeUrl = ValueTypeUrl
        /\ Len(Response(c).result[1].value.listValue.values) = 2

\* C27: when a resolver throws a GraphQL error, the failure carries a
\* structured payload: the message, the extension map with its code and its
\* field or resource, and a marker that tells it from a generic failure; the
\* failure of a generic Error carries no marker.
C27_GraphQLErrorsAreStructured ==
    \A c \in DOMAIN calls :
        (calls[c].rpc = "Execute" /\ calls[c].st = "done"
            /\ calls[c].outcome \in GraphQLOutcomes \cup {"throwError"}) =>
            LET thrown == ThrownValue(calls[c].outcome)
                text == FailureText(Response(c))
            IN /\ ~Response(c).success
               /\ \A i \in DOMAIN thrown.message : Contains(text, thrown.message[i])
               /\ IF calls[c].outcome \in GraphQLOutcomes
                  THEN /\ Contains(text, "is_graphql_error")
                       /\ \A k \in DOMAIN thrown.extensions :
                            Contains(text, thrown.extensions[k])
                  ELSE ~Contains(text, "is_graphql_error")

\* The status a probe's stored result must report for what the probe did
\* ("" when it returned a result without a status).
StoredStatus(out) ==
    IF out = "healthy" THEN "healthy"
    ELSE IF out \in {"error", "throw"} THEN "error"
    ELSE ""

Registries ==
    <<queries, mutations, resolvers, restAPIs, restHandlers, functions, healthChecks>>

\* C29: once the transport is serving, no step of an RPC handler (Init,
\* Migration, SchemaRegister, RESTApiRegister, GetVersion, Execute) adds,
\* removes or replaces a registry entry: every step that starts or answers a
\* call, and every step taken while serving or draining, leaves the
\* registries as they were.
C29_RpcHandlersLeaveTheRegistries ==
    [][(calls' # calls \/ phase \in {"Serving", "ShuttingDown"})
            => Registries' = Registries]_vars

\* While serving, a RESTApiRegister call was answered with the one endpoint
\* that is registered, next to a registered query.
C29_Witness ==
    \E c \in DOMAIN calls :
        /\ phase = "Serving"
        /\ calls[c].rpc = "RESTApiRegister" /\ calls[c].st = "done"
        /\ Len(restAPIs) = 1 /\ Len(Response(c).apis) = 1
        /\ \E n \in Names : queries[n] # None

\* C30: the function registry holds the key health_check in every state: the
\* constructor registers it, nothing removes it, and registerFunction on
\* that name replaces its handler only; so every health record reports the
\* capability custom_functions as true, also when the plugin author
\* registered no function.
C30_HealthCheckIsAlwaysRegistered ==
    /\ MapHas(functions, HealthCheckName)
    /\ functions[HealthCheckName] =
            IF RegIdx("registerFunction", HealthCheckName) = {} THEN BuiltinHealth
            ELSE LastRegistered("registerFunction", HealthCheckName).handler
    /\ \A c \in DOMAIN calls :
            (calls[c].rpc = "Execute" /\ calls[c].handler = BuiltinHealth
                                      /\ calls[c].st = "done") =>
                ResultOf(Response(c)).fields.capabilities.structValue.fields
                    .custom_functions = [boolValue |-> TRUE]

\* A health record was returned by a plugin whose author registered no
\* function at all, and it reports custom_functions as true.
C30_Witness ==
    \E c \in DOMAIN calls :
        /\ calls[c].rpc = "Execute" /\ calls[c].handler = BuiltinHealth
        /\ calls[c].st = "done"
        /\ \A i \in DOMAIN regLog : regLog[i].op # "registerFunction"
        /\ functions = [n \in FunctionNames |->
                            IF n = HealthCheckName THEN BuiltinHealth ELSE None]
        /\ ResultOf(Response(c)).fields.capabilities.structValue.fields
                .custom_functions.boolValue
====
